---- MODULE Spec2Model ----
(***************************************************************************)
(* Subnet identifiers of the IPC hierarchy: SubnetID (ipc/api/src/         *)
(* subnet_id.rs) and UniversalSubnetId (ipc/api/src/universal_subnet_id.rs)*)
(* with their string forms, parsers, conversions and path navigation.      *)
(*                                                                         *)
(* Text is a sequence of one-character strings, so that formatting and     *)
(* parsing are computed character by character as the code does.           *)
(***************************************************************************)
EXTENDS Integers, Sequences, FiniteSets, TLC

(***************************************************************************)
(* Bounds of the explored inputs.                                          *)
(***************************************************************************)
MaxChildren == 3      \* longest children path that is built
MaxSegments == 2      \* child segments of a text handed to a parser

(***************************************************************************)
(* Program constants.                                                      *)
(***************************************************************************)
BTC_NAMESPACE == 20

(***************************************************************************)
(* Text helpers (Rust str methods used by the parsers).                    *)
(***************************************************************************)
DigitChars == <<"0", "1", "2", "3", "4", "5", "6", "7", "8", "9">>

IsDigit(c) == \E i \in 1..10 : DigitChars[i] = c

DigitVal(c) == (CHOOSE i \in 1..10 : DigitChars[i] = c) - 1

starts_with(s, p) == Len(s) >= Len(p) /\ SubSeq(s, 1, Len(p)) = p

\* str::split(sep): the pieces between separators; always at least one piece
RECURSIVE split(_, _)
split(s, sep) ==
    IF \A i \in 1..Len(s) : s[i] # sep
    THEN <<s>>
    ELSE LET i == CHOOSE k \in 1..Len(s) :
                      s[k] = sep /\ \A j \in 1..(k - 1) : s[j] # sep
         IN  <<SubSeq(s, 1, i - 1)>> \o split(SubSeq(s, i + 1, Len(s)), sep)

\* u64 Display: decimal digits without sign or leading zeros
RECURSIVE u64_to_string(_)
u64_to_string(n) ==
    IF n < 10 THEN <<DigitChars[n + 1]>>
    ELSE u64_to_string(n \div 10) \o <<DigitChars[(n % 10) + 1]>>

U64MaxText == <<"1", "8", "4", "4", "6", "7", "4", "4", "0", "7",
                "3", "7", "0", "9", "5", "5", "1", "6", "1", "5">>

RECURSIVE StripZeros(_)
StripZeros(d) == IF Len(d) > 1 /\ d[1] = "0" THEN StripZeros(Tail(d)) ELSE d

\* d <= e for digit texts of equal length
RECURSIVE DigitsLeq(_, _)
DigitsLeq(d, e) ==
    IF d = <<>> THEN TRUE
    ELSE IF DigitVal(d[1]) < DigitVal(e[1]) THEN TRUE
    ELSE IF DigitVal(d[1]) > DigitVal(e[1]) THEN FALSE
    ELSE DigitsLeq(Tail(d), Tail(e))

\* the accumulated value of a digit text exceeds u64::MAX
PosOverflow(d) ==
    LET z == StripZeros(d)
    IN  Len(z) > 20 \/ (Len(z) = 20 /\ ~DigitsLeq(z, U64MaxText))

RECURSIVE DigitsValue(_)
DigitsValue(d) ==
    IF d = <<>> THEN 0
    ELSE DigitsValue(SubSeq(d, 1, Len(d) - 1)) * 10 + DigitVal(d[Len(d)])

\* str::parse::<u64>(): an optional '+', then one or more decimal digits
\* whose value fits 64 bits
parse_u64(s) ==
    IF s = <<>> THEN [ok |-> FALSE, val |-> 0]
    ELSE IF Len(s) = 1 /\ s[1] \in {"+", "-"} THEN [ok |-> FALSE, val |-> 0]
    ELSE LET digits == IF s[1] = "+" THEN Tail(s) ELSE s
         IN  IF \E i \in 1..Len(digits) : ~IsDigit(digits[i])
             THEN [ok |-> FALSE, val |-> 0]
             ELSE IF PosOverflow(digits) THEN [ok |-> FALSE, val |-> 0]
             ELSE [ok |-> TRUE, val |-> DigitsValue(digits)]

\* hex::decode of one character: a digit, or a letter a-f of either case
HexVal(c) ==
    CASE IsDigit(c) -> DigitVal(c)
      [] c \in {"a", "A"} -> 10 [] c \in {"b", "B"} -> 11
      [] c \in {"c", "C"} -> 12 [] c \in {"d", "D"} -> 13
      [] c \in {"e", "E"} -> 14 [] c \in {"f", "F"} -> 15
      [] OTHER -> -1

\* hex::decode: pairs of hex digits to bytes; odd length or a non-hex
\* character is an error
hex_decode(s) ==
    IF Len(s) % 2 # 0 \/ \E i \in 1..Len(s) : HexVal(s[i]) < 0
    THEN [ok |-> FALSE, bytes |-> <<>>]
    ELSE [ok |-> TRUE,
          bytes |-> [i \in 1..(Len(s) \div 2) |->
                        16 * HexVal(s[2 * i - 1]) + HexVal(s[2 * i])]]

(***************************************************************************)
(* BLAKE2b (blake2b_simd), which fvm_shared uses for the 4-byte checksum   *)
(* of an address's text form.  A 64-bit word is its eight bytes, lowest    *)
(* first.  An address has at most 65 bytes, so its hash is the compression *)
(* of one 128-byte block.                                                  *)
(***************************************************************************)
\* a value computed once and used by what follows
Bind(v, F(_)) == CHOOSE r \in {F(x) : x \in {v}} : TRUE

\* x ^ y for bytes
xor8(x, y) ==
    ((x + y) % 2)
        + 2 * (((x \div 2) + (y \div 2)) % 2)
        + 4 * (((x \div 4) + (y \div 4)) % 2)
        + 8 * (((x \div 8) + (y \div 8)) % 2)
        + 16 * (((x \div 16) + (y \div 16)) % 2)
        + 32 * (((x \div 32) + (y \div 32)) % 2)
        + 64 * (((x \div 64) + (y \div 64)) % 2)
        + 128 * (((x \div 128) + (y \div 128)) % 2)

\* p ^ q for words
xor64(p, q) == SubSeq([i \in 1..8 |-> xor8(p[i], q[i])], 1, 8)

\* (p ^ q).rotate_right(8 * k): byte i of the result is byte i + k
xor_rotr_bytes(p, q, k) ==
    SubSeq([i \in 1..8 |->
               xor8(p[((i - 1 + k) % 8) + 1], q[((i - 1 + k) % 8) + 1])],
           1, 8)

\* w.rotate_right(63), which is a rotation to the left by one bit
rotr63(w) ==
    SubSeq([i \in 1..8 |->
               ((2 * w[i]) % 256) + (w[((i + 6) % 8) + 1] \div 128)],
           1, 8)

\* the three low bytes, the three middle bytes and the two high bytes of a
\* word as numbers
low24(w) == w[1] + 256 * w[2] + 65536 * w[3]
mid24(w) == w[4] + 256 * w[5] + 65536 * w[6]
high16(w) == w[7] + 256 * w[8]

\* the word of three partial sums, carries passed upwards
carried(s0, s1, s2) ==
    Bind(s1 + (s0 \div 16777216), LAMBDA t1 :
        Bind(s2 + (t1 \div 16777216), LAMBDA t2 :
            <<s0 % 256, (s0 \div 256) % 256, (s0 \div 65536) % 256,
              t1 % 256, (t1 \div 256) % 256, (t1 \div 65536) % 256,
              t2 % 256, (t2 \div 256) % 256>>))

\* p.wrapping_add(q)
add64(p, q) ==
    Bind(<<low24(p) + low24(q), mid24(p) + mid24(q),
           high16(p) + high16(q)>>,
         LAMBDA s : carried(s[1], s[2], s[3]))

\* p.wrapping_add(q).wrapping_add(x)
add64_3(p, q, x) ==
    Bind(<<low24(p) + low24(q) + low24(x), mid24(p) + mid24(q) + mid24(x),
           high16(p) + high16(q) + high16(x)>>,
         LAMBDA s : carried(s[1], s[2], s[3]))

\* the initialisation vector
BLAKE2B_IV ==
    <<<<8, 201, 188, 243, 103, 230, 9, 106>>,
      <<59, 167, 202, 132, 133, 174, 103, 187>>,
      <<43, 248, 148, 254, 114, 243, 110, 60>>,
      <<241, 54, 29, 95, 58, 245, 79, 165>>,
      <<209, 130, 230, 173, 127, 82, 14, 81>>,
      <<31, 108, 62, 43, 140, 104, 5, 155>>,
      <<107, 189, 65, 251, 171, 217, 131, 31>>,
      <<121, 33, 126, 19, 25, 205, 224, 91>>>>

\* the message schedule: the order in which a round reads the message words
BLAKE2B_SIGMA ==
    <<<<0, 1, 2, 3, 4, 5, 6, 7, 8, 9, 10, 11, 12, 13, 14, 15>>,
      <<14, 10, 4, 8, 9, 15, 13, 6, 1, 12, 0, 2, 11, 7, 5, 3>>,
      <<11, 8, 12, 0, 5, 2, 15, 13, 10, 14, 3, 6, 7, 1, 9, 4>>,
      <<7, 9, 3, 1, 13, 12, 11, 14, 2, 6, 5, 10, 4, 0, 15, 8>>,
      <<9, 0, 5, 7, 2, 4, 10, 15, 14, 1, 11, 12, 6, 8, 3, 13>>,
      <<2, 12, 6, 10, 0, 11, 8, 3, 4, 13, 7, 5, 15, 14, 1, 9>>,
      <<12, 5, 1, 15, 14, 13, 4, 10, 0, 7, 6, 3, 9, 2, 8, 11>>,
      <<13, 11, 7, 14, 12, 1, 3, 9, 5, 0, 15, 4, 8, 6, 2, 10>>,
      <<6, 15, 14, 9, 11, 3, 0, 8, 12, 2, 13, 7, 1, 4, 10, 5>>,
      <<10, 2, 8, 4, 7, 6, 1, 5, 15, 11, 9, 14, 3, 12, 13, 0>>>>

\* the mixing function G on the words a, b, c, d of v with message words x
\* and y
blake2b_g(v, a, b, c, d, x, y) ==
    Bind(add64_3(v[a], v[b], x), LAMBDA a1 :
    Bind(xor_rotr_bytes(v[d], a1, 4), LAMBDA d1 :
    Bind(add64(v[c], d1), LAMBDA c1 :
    Bind(xor_rotr_bytes(v[b], c1, 3), LAMBDA b1 :
    Bind(add64_3(a1, b1, y), LAMBDA a2 :
    Bind(xor_rotr_bytes(d1, a2, 2), LAMBDA d2 :
    Bind(add64(c1, d2), LAMBDA c2 :
    Bind(xor64(b1, c2), LAMBDA b2 :
        [v EXCEPT ![a] = a2, ![b] = rotr63(b2), ![c] = c2, ![d] = d2]
    ))))))))

\* the words a round mixes: four columns, then four diagonals
BLAKE2B_STEPS ==
    <<<<1, 5, 9, 13>>, <<2, 6, 10, 14>>, <<3, 7, 11, 15>>, <<4, 8, 12, 16>>,
      <<1, 6, 11, 16>>, <<2, 7, 12, 13>>, <<3, 8, 9, 14>>, <<4, 5, 10, 15>>>>

\* one round with message schedule s, from step i on
RECURSIVE blake2b_round(_, _, _, _)
blake2b_round(v, m, s, i) ==
    IF i > Len(BLAKE2B_STEPS) THEN v
    ELSE Bind(blake2b_g(v, BLAKE2B_STEPS[i][1], BLAKE2B_STEPS[i][2],
                        BLAKE2B_STEPS[i][3], BLAKE2B_STEPS[i][4],
                        m[s[2 * i - 1] + 1], m[s[2 * i] + 1]),
              LAMBDA next : blake2b_round(next, m, s, i + 1))

BLAKE2B_ROUNDS == 12

RECURSIVE blake2b_rounds(_, _, _)
blake2b_rounds(v, m, r) ==
    IF r = BLAKE2B_ROUNDS THEN v
    ELSE Bind(blake2b_round(v, m, BLAKE2B_SIGMA[(r % 10) + 1], 1),
              LAMBDA next : blake2b_rounds(next, m, r + 1))

\* byte k of a block of at most 128 bytes, padded with zeros
blake2b_byte(bytes, k) == IF k <= Len(bytes) THEN bytes[k] ELSE 0

\* message word i (from 0) of the block
blake2b_word(bytes, i) ==
    SubSeq([k \in 1..8 |-> blake2b_byte(bytes, 8 * i + k)], 1, 8)

\* the sixteen message words of the block
blake2b_block(bytes) ==
    Bind(bytes, LAMBDA b :
        SubSeq([i \in 1..16 |-> blake2b_word(b, i - 1)], 1, 16))

\* Params::new().hash_length(n).hash(bytes) for at most 128 bytes: the
\* first n <= 8 bytes of the first word of the compressed state
blake2b(bytes, n) ==
    Bind(<<xor64(BLAKE2B_IV[1], <<n, 0, 1, 1, 0, 0, 0, 0>>),
           blake2b_block(bytes), Len(bytes)>>, LAMBDA hm :
    Bind(<<hm[1], BLAKE2B_IV[2], BLAKE2B_IV[3], BLAKE2B_IV[4],
           BLAKE2B_IV[5], BLAKE2B_IV[6], BLAKE2B_IV[7], BLAKE2B_IV[8],
           BLAKE2B_IV[1], BLAKE2B_IV[2], BLAKE2B_IV[3], BLAKE2B_IV[4],
           xor64(BLAKE2B_IV[5], <<hm[3], 0, 0, 0, 0, 0, 0, 0>>),
           BLAKE2B_IV[6],
           xor64(BLAKE2B_IV[7],
                 <<255, 255, 255, 255, 255, 255, 255, 255>>),
           BLAKE2B_IV[8]>>, LAMBDA v0 :
    Bind(blake2b_rounds(v0, hm[2], 0), LAMBDA v :
        SubSeq(xor64(hm[1], xor64(v[1], v[9])), 1, n))))

(***************************************************************************)
(* Addresses (fvm_shared::address::Address as used by SubnetID): an ID     *)
(* address f0<id>, a hashed address f1/f2/f3<payload>, or a delegated      *)
(* address f4<namespace>f<payload>.  `id` holds the id of an ID address    *)
(* and the namespace of a delegated one; `subaddress` holds the bytes of   *)
(* the others: the hash or key of a hashed address, the sub-address of a   *)
(* delegated one.                                                          *)
(***************************************************************************)
Address_new_id(n) == [protocol |-> 0, id |-> n, subaddress |-> <<>>]

MAX_SUBADDRESS_LEN == 54

\* Address::new_delegated(ns, bytes): at most 54 bytes of sub-address
\* an address error: its variant and, for InvalidPayloadLength, the length
\* it reports (0 for the others)
AddressError(name, len) == [name |-> name, len |-> len]

Address_new_delegated(ns, bytes) ==
    IF Len(bytes) > MAX_SUBADDRESS_LEN
    THEN [ok |-> FALSE, val |-> Address_new_id(0),
          err |-> AddressError("InvalidPayloadLength", Len(bytes))]
    ELSE [ok |-> TRUE,
          val |-> [protocol |-> 4, id |-> ns, subaddress |-> bytes],
          err |-> AddressError("", 0)]

\* the text alphabet of addresses: RFC 4648 base32 in lower case, unpadded
BASE32_SYMBOLS ==
    <<"a", "b", "c", "d", "e", "f", "g", "h", "i", "j", "k", "l", "m",
      "n", "o", "p", "q", "r", "s", "t", "u", "v", "w", "x", "y", "z",
      "2", "3", "4", "5", "6", "7">>

Pow2(k) == <<1, 2, 4, 8, 16, 32, 64, 128>>[k + 1]

\* bit n (from 0, highest bit of a unit first) of a sequence of units of
\* `width` bits; 0 past its end
bit_at(units, width, n) ==
    IF n >= width * Len(units) THEN 0
    ELSE (units[(n \div width) + 1] \div Pow2(width - 1 - (n % width))) % 2

\* the number written by `width` bits from bit n on
bits_from(units, unit_width, n, width) ==
    IF width = 5
    THEN 16 * bit_at(units, unit_width, n)
         + 8 * bit_at(units, unit_width, n + 1)
         + 4 * bit_at(units, unit_width, n + 2)
         + 2 * bit_at(units, unit_width, n + 3)
         + bit_at(units, unit_width, n + 4)
    ELSE 128 * bit_at(units, unit_width, n)
         + 64 * bit_at(units, unit_width, n + 1)
         + 32 * bit_at(units, unit_width, n + 2)
         + 16 * bit_at(units, unit_width, n + 3)
         + 8 * bit_at(units, unit_width, n + 4)
         + 4 * bit_at(units, unit_width, n + 5)
         + 2 * bit_at(units, unit_width, n + 6)
         + bit_at(units, unit_width, n + 7)

\* ADDRESS_ENCODER.encode: five bits a symbol, the last symbol padded with
\* zero bits
base32_encode(bytes) ==
    Bind(bytes, LAMBDA b :
        SubSeq([k \in 1..((8 * Len(b) + 4) \div 5) |->
                   BASE32_SYMBOLS[bits_from(b, 8, 5 * (k - 1), 5) + 1]],
               1, (8 * Len(b) + 4) \div 5))

base32_value(c) ==
    IF \E i \in 1..32 : BASE32_SYMBOLS[i] = c
    THEN (CHOOSE i \in 1..32 : BASE32_SYMBOLS[i] = c) - 1
    ELSE -1

\* ADDRESS_ENCODER.decode: an error for a symbol outside the alphabet, for
\* a length no encoding has, and for padding bits that are not zero
base32_decode(s) ==
    Bind(SubSeq([i \in 1..Len(s) |-> base32_value(s[i])], 1, Len(s)),
         LAMBDA values :
        IF \/ (Len(values) % 8) \in {1, 3, 6}
           \/ \E i \in 1..Len(values) : values[i] < 0
        THEN [ok |-> FALSE, bytes |-> <<>>]
        ELSE IF \E n \in (8 * ((5 * Len(values)) \div 8))
                             ..(5 * Len(values) - 1) :
                    bit_at(values, 5, n) # 0
        THEN [ok |-> FALSE, bytes |-> <<>>]
        ELSE [ok |-> TRUE,
              bytes |->
                  SubSeq([i \in 1..((5 * Len(values)) \div 8) |->
                             bits_from(values, 5, 8 * (i - 1), 8)],
                         1, (5 * Len(values)) \div 8)])

\* unsigned LEB128, the varint of an id or a namespace
RECURSIVE leb128(_)
leb128(n) ==
    IF n < 128 THEN <<n>>
    ELSE <<128 + (n % 128)>> \o leb128(n \div 128)

\* Address::to_bytes: the protocol byte, then the payload
Address_to_bytes(a) ==
    CASE a.protocol = 0 -> <<0>> \o leb128(a.id)
      [] a.protocol = 4 -> <<4>> \o leb128(a.id) \o a.subaddress
      [] OTHER -> <<a.protocol>> \o a.subaddress

CHECKSUM_HASH_LEN == 4

\* checksums of the address bytes that the explored inputs build, as
\* blake2b gives them: kept so that they are not computed in every state
KnownChecksums ==
    <<4, 20>> :> <<202, 22, 70, 65>>
    @@ <<4, 20, 46>> :> <<20, 50, 209, 141>>
    @@ <<4, 20, 171>> :> <<162, 118, 20, 13>>
    @@ <<2, 189, 178, 17, 211, 249, 236, 128, 207, 28, 93, 253, 239, 101, 10,
         98, 69, 1, 159, 184, 157>> :> <<115, 16, 251, 6>>

\* checksum(ingest): blake2b of 4 bytes
checksum(ingest) ==
    Bind(ingest, LAMBDA bytes :
        IF bytes \in DOMAIN KnownChecksums THEN KnownChecksums[bytes]
        ELSE blake2b(bytes, CHECKSUM_HASH_LEN))

\* Address Display on the default (mainnet, "f") network
Address_to_string(address) ==
    Bind(address, LAMBDA a :
        CASE a.protocol = 0 -> <<"f", "0">> \o u64_to_string(a.id)
          [] a.protocol = 4 ->
                 <<"f", "4">> \o u64_to_string(a.id) \o <<"f">>
                     \o base32_encode(a.subaddress
                                          \o checksum(Address_to_bytes(a)))
          [] OTHER ->
                 <<"f">> \o u64_to_string(a.protocol)
                     \o base32_encode(a.subaddress
                                          \o checksum(Address_to_bytes(a))))

AddrErr(e) ==
    [ok |-> FALSE, val |-> Address_new_id(0), err |-> AddressError(e, 0)]
AddrOk(a) == [ok |-> TRUE, val |-> a, err |-> AddressError("", 0)]

\* validate_and_split_checksum: the decoded bytes are a payload and the
\* four bytes of the checksum of the protocol byte, the prefix and the
\* payload; the payload comes back in `val.subaddress`
validate_and_split_checksum(protocol, prefix, decoded) ==
    IF Len(decoded) < CHECKSUM_HASH_LEN THEN AddrErr("InvalidLength")
    ELSE Bind(SubSeq(decoded, 1, Len(decoded) - CHECKSUM_HASH_LEN),
              LAMBDA payload :
        IF checksum(<<protocol>> \o prefix \o payload)
               # SubSeq(decoded, Len(decoded) - CHECKSUM_HASH_LEN + 1,
                        Len(decoded))
        THEN AddrErr("InvalidChecksum")
        ELSE AddrOk([protocol |-> protocol, id |-> 0,
                     subaddress |-> payload]))

\* the delegated branch of the address parser: <namespace> 'f' <payload>;
\* the checksum is verified before DelegatedAddress::new looks at the
\* length of the sub-address
parse_delegated_address(raw) ==
    IF \A i \in 1..Len(raw) : raw[i] # "f" THEN AddrErr("InvalidPayload")
    ELSE Bind(CHOOSE k \in 1..Len(raw) :
                  raw[k] = "f" /\ \A j \in 1..(k - 1) : raw[j] # "f",
              LAMBDA i :
         Bind(parse_u64(SubSeq(raw, 1, i - 1)), LAMBDA ns :
             IF i - 1 > 20 THEN AddrErr("InvalidLength")
             ELSE IF ~ns.ok THEN AddrErr("InvalidPayload")
             ELSE Bind(base32_decode(SubSeq(raw, i + 1, Len(raw))),
                       LAMBDA decoded :
                  IF ~decoded.ok THEN AddrErr("Base32Decoding")
                  ELSE Bind(validate_and_split_checksum(
                                4, leb128(ns.val), decoded.bytes),
                            LAMBDA split_off :
                           IF ~split_off.ok THEN split_off
                           ELSE Address_new_delegated(
                                    ns.val, split_off.val.subaddress)))))

PAYLOAD_HASH_LEN == 20
BLS_PUB_LEN == 48

\* the hashed branch: a 20-byte hash (f1, f2) or a 48-byte key (f3)
parse_hashed_address(protocol, raw) ==
    Bind(base32_decode(raw), LAMBDA decoded :
        IF ~decoded.ok THEN AddrErr("Base32Decoding")
        ELSE Bind(validate_and_split_checksum(protocol, <<>>, decoded.bytes),
                  LAMBDA split_off :
                 IF ~split_off.ok THEN split_off
                 ELSE IF Len(split_off.val.subaddress)
                             # (IF protocol = 3 THEN BLS_PUB_LEN
                                ELSE PAYLOAD_HASH_LEN)
                 THEN AddrErr("InvalidPayload")
                 ELSE split_off))

MAX_ADDRESS_TEXT_LEN == 138

\* Address::from_str on the default network: f<protocol><payload>
Address_from_str(text) ==
    Bind(text, LAMBDA s :
    IF Len(s) > MAX_ADDRESS_TEXT_LEN \/ Len(s) < 3
    THEN AddrErr("InvalidLength")
    ELSE IF s[1] \notin {"f", "t"} THEN AddrErr("UnknownNetwork")
    ELSE IF s[2] \notin {"0", "1", "2", "3", "4"}
         THEN AddrErr("UnknownProtocol")
    ELSE Bind(SubSeq(s, 3, Len(s)), LAMBDA raw :
         Bind(IF s[2] = "0"
              THEN IF Len(raw) > 20 THEN AddrErr("InvalidLength")
                   ELSE Bind(parse_u64(raw), LAMBDA n :
                            IF n.ok THEN AddrOk(Address_new_id(n.val))
                            ELSE AddrErr("InvalidPayload"))
              ELSE IF s[2] = "4" THEN parse_delegated_address(raw)
              ELSE parse_hashed_address(DigitVal(s[2]), raw),
              LAMBDA parsed :
                  IF ~parsed.ok THEN parsed
                  ELSE IF s[1] # "f" THEN AddrErr("UnknownNetwork")
                  ELSE parsed)))

(***************************************************************************)
(* Results.  Option: None / Some; Result: Ok / Err (Error::InvalidID with  *)
(* the raw text and the reason); Panic: the call unwinds.                  *)
(***************************************************************************)
None == [kind |-> "None"]
Some(v) == [kind |-> "Some", val |-> v]
Ok(v) == [kind |-> "Ok", val |-> v]
Panic == [kind |-> "Panic"]

\* the reason of an InvalidID: fixed text, then (for a child address) the
\* segment and the address error
Reason(text) ==
    [text |-> text, segment |-> <<>>, cause |-> AddressError("", 0)]
ChildReason(seg, e) ==
    [text |-> "invalid child address", segment |-> seg, cause |-> e]
InvalidID(raw, reason) ==
    [kind |-> "Err", variant |-> "InvalidID", raw |-> raw, msg |-> reason]

\* Error::FVMAddressError, what `?` makes of an address error
FVMAddressError(e) ==
    [kind |-> "Err", variant |-> "FVMAddressError", address_error |-> e]

(***************************************************************************)
(* SubnetID                                                                *)
(***************************************************************************)
UNDEF == [root_network_type |-> "Fevm", root |-> 0, children |-> <<>>]

SubnetID_new(root_id, children) ==
    [root_network_type |-> "Fevm", root |-> root_id, children |-> children]

SubnetID_new_btc(network_id, btc_id) ==
    LET btc_bytes == hex_decode(btc_id)
    IN  IF ~btc_bytes.ok
        THEN InvalidID(btc_id,
                       Reason("Bitcoin subnet child is not a valid hex"))
        ELSE LET delegated_addr ==
                     Address_new_delegated(BTC_NAMESPACE, btc_bytes.bytes)
             IN  IF ~delegated_addr.ok
                 THEN FVMAddressError(delegated_addr.err)
                 ELSE Ok([root_network_type |-> "Btc",
                          root |-> network_id,
                          children |-> <<delegated_addr.val>>])

SubnetID_new_from_parent(parent, subnet_act) ==
    [root_network_type |-> parent.root_network_type,
     root |-> parent.root,
     children |-> Append(parent.children, subnet_act)]

SubnetID_new_root(root_id) ==
    [root_network_type |-> "Fevm", root |-> root_id, children |-> <<>>]

SubnetID_subnet_actor(self) ==
    IF self.children # <<>> THEN self.children[Len(self.children)]
    ELSE Address_new_id(0)

\* mutant: removes the first child, not the last
SubnetID_parent_mut(self) ==
    IF self.children = <<>> THEN None
    ELSE Some([root_network_type |-> self.root_network_type,
               root |-> self.root,
               children |-> Tail(self.children)])

SubnetID_parent(self) ==
    IF self.children = <<>> THEN None
    ELSE Some([root_network_type |-> self.root_network_type,
               root |-> self.root,
               children |-> SubSeq(self.children, 1,
                                   Len(self.children) - 1)])

\* iter().zip(other).take_while(|(a, b)| a == b).count()
RECURSIVE take_while_eq_count(_, _)
take_while_eq_count(xs, ys) ==
    IF xs = <<>> \/ ys = <<>> THEN 0
    ELSE IF xs[1] # ys[1] THEN 0
    ELSE 1 + take_while_eq_count(Tail(xs), Tail(ys))

\* mutant: counts every position that agrees, not only the leading ones
SubnetID_common_parent_mut(self, other) ==
    IF self.root # other.root THEN None
    ELSE LET n == IF Len(self.children) <= Len(other.children)
                  THEN Len(self.children) ELSE Len(other.children)
             common == Cardinality({i \in 1..n :
                                       self.children[i] = other.children[i]})
         IN  [kind |-> "Some",
              k |-> common,
              val |-> [root_network_type |-> self.root_network_type,
                       root |-> self.root,
                       children |-> SubSeq(self.children, 1, common)]]

SubnetID_common_parent(self, other) ==
    IF self.root # other.root THEN None
    ELSE LET common == take_while_eq_count(self.children, other.children)
         IN  [kind |-> "Some",
              k |-> common,
              val |-> [root_network_type |-> self.root_network_type,
                       root |-> self.root,
                       children |-> SubSeq(self.children, 1, common)]]

\* mutant: cuts at the common parent instead of one below it
SubnetID_down_mut(self, from) ==
    IF Len(self.children) <= Len(from.children) THEN None
    ELSE LET cp == SubnetID_common_parent(self, from)
         IN  IF cp.kind = "Some"
             THEN Some([root_network_type |-> self.root_network_type,
                        root |-> self.root,
                        children |-> SubSeq(self.children, 1, cp.k)])
             ELSE None

SubnetID_down(self, from) ==
    IF Len(self.children) <= Len(from.children) THEN None
    ELSE LET cp == SubnetID_common_parent(self, from)
         IN  IF cp.kind = "Some"
             THEN IF cp.k + 1 > Len(self.children) THEN Panic
                  ELSE Some([root_network_type |-> self.root_network_type,
                             root |-> self.root,
                             children |->
                                 SubSeq(self.children, 1, cp.k + 1)])
             ELSE None

\* mutant: cuts at the common parent instead of one above it
SubnetID_up_mut(self, from) ==
    IF Len(self.children) < Len(from.children) THEN None
    ELSE LET cp == SubnetID_common_parent(self, from)
         IN  IF cp.kind = "Some"
             THEN Some([root_network_type |-> self.root_network_type,
                        root |-> self.root,
                        children |-> SubSeq(self.children, 1, cp.k)])
             ELSE None

\* [..i - 1] on usize: i = 0 overflows the subtraction (checked builds) or
\* wraps to usize::MAX and the slice is out of range (unchecked builds);
\* the call panics in both
SubnetID_up(self, from) ==
    IF Len(self.children) < Len(from.children) THEN None
    ELSE LET cp == SubnetID_common_parent(self, from)
         IN  IF cp.kind = "Some"
             THEN IF cp.k = 0 THEN Panic
                  ELSE Some([root_network_type |-> self.root_network_type,
                             root |-> self.root,
                             children |->
                                 SubSeq(self.children, 1, cp.k - 1)])
             ELSE None

\* fold of "/{address}" over the children
RECURSIVE children_str(_)
children_str(children) ==
    IF children = <<>> THEN <<>>
    ELSE <<"/">> \o Address_to_string(children[1])
             \o children_str(Tail(children))

SubnetID_to_string(self) ==
    LET prefix == IF self.root_network_type = "Fevm"
                  THEN <<"/", "r">> ELSE <<"/", "b">>
    IN  prefix \o u64_to_string(self.root) \o children_str(self.children)

(***************************************************************************)
(* u64 arithmetic on eight little-endian bytes, for the 64-bit hash of     *)
(* chain_id.                                                               *)
(***************************************************************************)
U64_ZERO == <<0, 0, 0, 0, 0, 0, 0, 0>>

RECURSIVE Pow256(_)
Pow256(k) == IF k = 0 THEN 1 ELSE 256 * Pow256(k - 1)

\* a number below 2^31 as a u64
U64_from(n) ==
    [i \in 1..8 |-> IF i > 4 THEN 0 ELSE (n \div Pow256(i - 1)) % 256]

U64_geq(a, b) ==
    \/ a = b
    \/ \E i \in 1..8 : a[i] > b[i] /\ \A j \in (i + 1)..8 : a[j] = b[j]

RECURSIVE add_bytes(_, _, _, _)
add_bytes(a, b, i, carry) ==
    IF i > 8 THEN <<>>
    ELSE LET t == a[i] + b[i] + carry
         IN  <<t % 256>> \o add_bytes(a, b, i + 1, t \div 256)

\* u64::wrapping_add
U64_wrapping_add(a, b) == add_bytes(a, b, 1, 0)

RECURSIVE sub_bytes(_, _, _, _)
sub_bytes(a, b, i, borrow) ==
    IF i > 8 THEN <<>>
    ELSE LET t == a[i] - b[i] - borrow
         IN  <<(t + 256) % 256>>
                 \o sub_bytes(a, b, i + 1, IF t < 0 THEN 1 ELSE 0)

\* a - b for a >= b
U64_sub(a, b) == sub_bytes(a, b, 1, 0)

RECURSIVE column_sum(_, _, _, _)
column_sum(a, b, k, i) ==
    IF i > k THEN 0
    ELSE a[i] * b[k + 1 - i] + column_sum(a, b, k, i + 1)

RECURSIVE mul_bytes(_, _, _, _)
mul_bytes(a, b, k, carry) ==
    IF k > 8 THEN <<>>
    ELSE LET t == column_sum(a, b, k, 1) + carry
         IN  <<t % 256>> \o mul_bytes(a, b, k + 1, t \div 256)

\* u64::wrapping_mul
U64_wrapping_mul(a, b) == mul_bytes(a, b, 1, 0)

\* the largest m * 2^k that is at most x and fits 64 bits
RECURSIVE shifted_divisor(_, _)
shifted_divisor(m, x) ==
    IF m[8] >= 128 \/ ~U64_geq(x, U64_wrapping_add(m, m)) THEN m
    ELSE shifted_divisor(U64_wrapping_add(m, m), x)

\* the u64 remainder x % m, m > 0
RECURSIVE U64_rem(_, _)
U64_rem(x, m) ==
    IF ~U64_geq(x, m) THEN x
    ELSE U64_rem(U64_sub(x, shifted_divisor(m, x)), m)

\* eight bytes
IsU64(v) == DOMAIN v = 1..8 /\ \A i \in 1..8 : v[i] \in 0..255

\* the u64 written by a decimal literal
RECURSIVE U64_literal(_)
U64_literal(d) ==
    IF d = <<>> THEN U64_ZERO
    ELSE LET high == U64_literal(SubSeq(d, 1, Len(d) - 1))
         IN  CASE IsU64(high) ->
                 U64_wrapping_add(U64_wrapping_mul(high, U64_from(10)),
                                  U64_from(DigitVal(d[Len(d)])))

RECURSIVE xor_bits(_, _, _)
xor_bits(a, b, n) ==
    IF n = 0 THEN 0
    ELSE ((a + b) % 2) + 2 * xor_bits(a \div 2, b \div 2, n - 1)

\* the byte x ^ y
xor_byte(x, y) == xor_bits(x, y, 8)

LowerChars ==
    <<"a", "b", "c", "d", "e", "f", "g", "h", "i", "j", "k", "l", "m",
      "n", "o", "p", "q", "r", "s", "t", "u", "v", "w", "x", "y", "z">>

\* str::as_bytes of one character of a string form
byte_of(c) ==
    IF IsDigit(c) THEN 48 + DigitVal(c)
    ELSE IF \E i \in 1..26 : LowerChars[i] = c
    THEN 96 + (CHOOSE i \in 1..26 : LowerChars[i] = c)
    ELSE 47

as_bytes(s) == [i \in 1..Len(s) |-> byte_of(s[i])]

MAX_CHAIN_ID ==
    U64_literal(<<"4", "5", "0", "3", "5", "9", "9", "6",
                  "2", "7", "3", "7", "0", "4", "7", "6">>)

\* FnvHasher::default(): the 64-bit offset basis 0xcbf29ce484222325
FnvHasher_default ==
    U64_literal(<<"1", "4", "6", "9", "5", "9", "8", "1", "0", "3",
                  "9", "3", "4", "6", "6", "5", "6", "0", "3", "7">>)

\* the 64-bit FNV prime 0x100000001b3
FNV_PRIME ==
    U64_literal(<<"1", "0", "9", "9", "5", "1", "1", "6", "2", "8",
                  "2", "1", "1">>)

\* FnvHasher::write: for each byte, xor it into the low byte and multiply
RECURSIVE FnvHasher_write(_, _)
FnvHasher_write(hash, bytes) ==
    IF bytes = <<>> THEN hash
    ELSE LET next == U64_wrapping_mul(
                         [hash EXCEPT ![1] = xor_byte(hash[1], bytes[1])],
                         FNV_PRIME)
         IN  CASE IsU64(next) -> FnvHasher_write(next, Tail(bytes))

\* mutant: the hash is returned without the reduction modulo MAX_CHAIN_ID
SubnetID_chain_id_mut(self) ==
    IF self.children = <<>> THEN U64_from(self.root)
    ELSE FnvHasher_write(FnvHasher_default,
                         as_bytes(SubnetID_to_string(self)))

SubnetID_chain_id(self) ==
    IF self.children = <<>> THEN U64_from(self.root)
    ELSE U64_rem(FnvHasher_write(FnvHasher_default,
                                 as_bytes(SubnetID_to_string(self))),
                 MAX_CHAIN_ID)

\* mutant: the Bitcoin network id 0 is not rejected
SubnetID_from_str_mut(id) ==
    IF ~starts_with(id, <<"/", "r">>) /\ ~starts_with(id, <<"/", "b">>)
    THEN InvalidID(id, Reason("expected to start with '/r' or '/b'"))
    ELSE LET network_type ==
                 IF starts_with(id, <<"/", "r">>) THEN "Fevm" ELSE "Btc"
             segments == Tail(split(id, "/"))
             root == parse_u64(Tail(segments[1]))
             addrs == [i \in 1..(Len(segments) - 1) |->
                          Address_from_str(segments[i + 1])]
         IN  IF ~root.ok THEN InvalidID(id, Reason("invalid root ID"))
             ELSE IF \E i \in 1..Len(addrs) : ~addrs[i].ok
             THEN LET i == CHOOSE k \in 1..Len(addrs) :
                               ~addrs[k].ok
                               /\ \A j \in 1..(k - 1) : addrs[j].ok
                  IN  InvalidID(id, ChildReason(segments[i + 1],
                                                addrs[i].err))
             ELSE Ok([root_network_type |-> network_type,
                      root |-> root.val,
                      children |-> [i \in 1..Len(addrs) |-> addrs[i].val]])

SubnetID_from_str(id) ==
    IF ~starts_with(id, <<"/", "r">>) /\ ~starts_with(id, <<"/", "b">>)
    THEN InvalidID(id, Reason("expected to start with '/r' or '/b'"))
    ELSE LET network_type ==
                 IF starts_with(id, <<"/", "r">>) THEN "Fevm" ELSE "Btc"
             segments == Tail(split(id, "/"))
             root == parse_u64(Tail(segments[1]))
             addrs == [i \in 1..(Len(segments) - 1) |->
                          Address_from_str(segments[i + 1])]
         IN  IF ~root.ok THEN InvalidID(id, Reason("invalid root ID"))
             ELSE IF network_type = "Btc" /\ root.val = 0
             THEN InvalidID(id, Reason("invalid Bitcoin network ID"))
             ELSE IF \E i \in 1..Len(addrs) : ~addrs[i].ok
             THEN LET i == CHOOSE k \in 1..Len(addrs) :
                               ~addrs[k].ok
                               /\ \A j \in 1..(k - 1) : addrs[j].ok
                  IN  InvalidID(id, ChildReason(segments[i + 1],
                                                addrs[i].err))
             ELSE Ok([root_network_type |-> network_type,
                      root |-> root.val,
                      children |-> [i \in 1..Len(addrs) |-> addrs[i].val]])

(***************************************************************************)
(* UniversalSubnetId: a CAIP-2 root (namespace, reference) and children    *)
(* that are plain text.                                                    *)
(***************************************************************************)
EIP155 == <<"e", "i", "p", "1", "5", "5">>
BIP122 == <<"b", "i", "p", "1", "2", "2">>

ChainId(namespace, reference) ==
    [namespace |-> namespace, reference |-> reference]

UNIVERSAL_UNDEF == [root |-> ChainId(EIP155, <<"0">>), children |-> <<>>]

UniversalSubnetId_new(root, children) ==
    [root |-> root, children |-> children]

UniversalSubnetId_new_from_parent(parent, subnet_child) ==
    [root |-> parent.root, children |-> Append(parent.children, subnet_child)]

UniversalSubnetId_new_root(root_id) == [root |-> root_id, children |-> <<>>]

RECURSIVE universal_children_str(_)
universal_children_str(children) ==
    IF children = <<>> THEN <<>>
    ELSE <<"/">> \o children[1] \o universal_children_str(Tail(children))

\* mutant: namespace and reference are joined by '/' instead of ':'
UniversalSubnetId_to_string_mut(self) ==
    <<"/">> \o self.root.namespace \o <<"/">> \o self.root.reference
        \o universal_children_str(self.children)

UniversalSubnetId_to_string(self) ==
    <<"/">> \o self.root.namespace \o <<":">> \o self.root.reference
        \o universal_children_str(self.children)

\* mutant: the last child that fails is reported, not the first
UniversalSubnetId_to_subnet_id_last_mut(self) ==
    IF self.root.namespace # EIP155
    THEN InvalidID(UniversalSubnetId_to_string(self),
             Reason("only eip155 namespace can be converted to SubnetID"))
    ELSE LET root_id == parse_u64(self.root.reference)
             addrs == [i \in 1..Len(self.children) |->
                          Address_from_str(self.children[i])]
         IN  IF ~root_id.ok
             THEN InvalidID(UniversalSubnetId_to_string(self),
                      Reason("root chain ID reference cannot be converted to u64"))
             ELSE IF \E i \in 1..Len(addrs) : ~addrs[i].ok
             THEN LET i == CHOOSE k \in 1..Len(addrs) :
                               ~addrs[k].ok
                               /\ \A j \in (k + 1)..Len(addrs) : addrs[j].ok
                  IN  InvalidID(UniversalSubnetId_to_string(self),
                                ChildReason(self.children[i], addrs[i].err))
             ELSE Ok(SubnetID_new(root_id.val,
                                  [i \in 1..Len(addrs) |-> addrs[i].val]))

\* mutant: the namespace is not checked
UniversalSubnetId_to_subnet_id_mut(self) ==
    LET root_id == parse_u64(self.root.reference)
        addrs == [i \in 1..Len(self.children) |->
                     Address_from_str(self.children[i])]
    IN  IF ~root_id.ok
        THEN InvalidID(UniversalSubnetId_to_string(self),
                 Reason("root chain ID reference cannot be converted to u64"))
        ELSE IF \E i \in 1..Len(addrs) : ~addrs[i].ok
        THEN LET i == CHOOSE k \in 1..Len(addrs) :
                          ~addrs[k].ok /\ \A j \in 1..(k - 1) : addrs[j].ok
             IN  InvalidID(UniversalSubnetId_to_string(self),
                           ChildReason(self.children[i], addrs[i].err))
        ELSE Ok(SubnetID_new(root_id.val,
                             [i \in 1..Len(addrs) |-> addrs[i].val]))

UniversalSubnetId_to_subnet_id(self) ==
    IF self.root.namespace # EIP155
    THEN InvalidID(UniversalSubnetId_to_string(self),
             Reason("only eip155 namespace can be converted to SubnetID"))
    ELSE LET root_id == parse_u64(self.root.reference)
             addrs == [i \in 1..Len(self.children) |->
                          Address_from_str(self.children[i])]
         IN  IF ~root_id.ok
             THEN InvalidID(UniversalSubnetId_to_string(self),
                      Reason("root chain ID reference cannot be converted to u64"))
             ELSE IF \E i \in 1..Len(addrs) : ~addrs[i].ok
             THEN LET i == CHOOSE k \in 1..Len(addrs) :
                               ~addrs[k].ok
                               /\ \A j \in 1..(k - 1) : addrs[j].ok
                  IN  InvalidID(UniversalSubnetId_to_string(self),
                                ChildReason(self.children[i], addrs[i].err))
             ELSE Ok(SubnetID_new(root_id.val,
                                  [i \in 1..Len(addrs) |-> addrs[i].val]))

\* mutant: the last child is left out
UniversalSubnetId_from_subnet_id_mut(subnet_id) ==
    UniversalSubnetId_new(
        ChainId(EIP155, u64_to_string(subnet_id.root)),
        [i \in 1..(IF subnet_id.children = <<>> THEN 0
                   ELSE Len(subnet_id.children) - 1) |->
            Address_to_string(subnet_id.children[i])])

UniversalSubnetId_from_subnet_id(subnet_id) ==
    UniversalSubnetId_new(
        ChainId(EIP155, u64_to_string(subnet_id.root)),
        [i \in 1..Len(subnet_id.children) |->
            Address_to_string(subnet_id.children[i])])

UniversalSubnetId_parent(self) ==
    IF self.children = <<>> THEN None
    ELSE Some(UniversalSubnetId_new(
                  self.root,
                  SubSeq(self.children, 1, Len(self.children) - 1)))

\* mutant: an unknown namespace is classified as the default, Fevm
UniversalSubnetId_root_network_type_mut(self) ==
    CASE self.root.namespace = BIP122 -> Some("Btc")
      [] OTHER -> Some("Fevm")

UniversalSubnetId_root_network_type(self) ==
    CASE self.root.namespace = EIP155 -> Some("Fevm")
      [] self.root.namespace = BIP122 -> Some("Btc")
      [] OTHER -> None

\* mutant: a first segment with more than one ':' is accepted
UniversalSubnetId_from_str_mut(s) ==
    IF ~starts_with(s, <<"/">>)
    THEN InvalidID(s, Reason("expected to start with '/'"))
    ELSE LET segments == Tail(split(s, "/"))
         IN  IF segments = <<>>
             THEN InvalidID(s, Reason("missing chain ID"))
             ELSE LET chain_id_parts == split(segments[1], ":")
                  IN  IF Len(chain_id_parts) < 2
                      THEN InvalidID(s, Reason(
                          "invalid chain ID format, expected namespace:reference"))
                      ELSE Ok(UniversalSubnetId_new(
                                  ChainId(chain_id_parts[1],
                                          chain_id_parts[2]),
                                  Tail(segments)))

UniversalSubnetId_from_str(s) ==
    IF ~starts_with(s, <<"/">>)
    THEN InvalidID(s, Reason("expected to start with '/'"))
    ELSE LET segments == Tail(split(s, "/"))
         IN  IF segments = <<>>
             THEN InvalidID(s, Reason("missing chain ID"))
             ELSE LET chain_id_parts == split(segments[1], ":")
                  IN  IF Len(chain_id_parts) # 2
                      THEN InvalidID(s, Reason(
                          "invalid chain ID format, expected namespace:reference"))
                      ELSE Ok(UniversalSubnetId_new(
                                  ChainId(chain_id_parts[1],
                                          chain_id_parts[2]),
                                  Tail(segments)))

(***************************************************************************)
(* Serialization of a UniversalSubnetId: a tuple of the root, written as   *)
(* one string by chain_id_serde, and the children.  The root is read back  *)
(* by ChainId::from_str, which accepts the CAIP-2 grammar only.            *)
(***************************************************************************)
CAIP2_NAMESPACE_MIN == 3
CAIP2_NAMESPACE_MAX == 8
CAIP2_REFERENCE_MIN == 1
CAIP2_REFERENCE_MAX == 32

\* [-a-z0-9]
IsNamespaceChar(c) ==
    c = "-" \/ IsDigit(c) \/ \E i \in 1..26 : LowerChars[i] = c

\* [-_a-zA-Z0-9]
IsReferenceChar(c) ==
    \/ IsNamespaceChar(c)
    \/ c = "_"
    \/ c \in {"A", "B", "C", "D", "E", "F", "G", "H", "I", "J", "K", "L", "M",
              "N", "O", "P", "Q", "R", "S", "T", "U", "V", "W", "X", "Y", "Z"}

\* ChainId::from_str: namespace and reference around the first ':'
ChainId_from_str(s) ==
    LET parts == split(s, ":")
        namespace == parts[1]
        reference == SubSeq(s, Len(namespace) + 2, Len(s))
        fail(e) == [ok |-> FALSE, val |-> ChainId(<<>>, <<>>), err |-> e]
    IN  IF Len(parts) < 2 THEN fail("Missing separator")
        ELSE IF Len(namespace) < CAIP2_NAMESPACE_MIN
        THEN fail("Namespace too short")
        ELSE IF Len(namespace) > CAIP2_NAMESPACE_MAX
        THEN fail("Namespace too long")
        ELSE IF \E i \in 1..Len(namespace) : ~IsNamespaceChar(namespace[i])
        THEN fail("Namespace contains invalid character")
        ELSE IF Len(reference) < CAIP2_REFERENCE_MIN
        THEN fail("Reference too short")
        ELSE IF Len(reference) > CAIP2_REFERENCE_MAX
        THEN fail("Reference too long")
        ELSE IF \E i \in 1..Len(reference) : ~IsReferenceChar(reference[i])
        THEN fail("Reference contains invalid character")
        ELSE [ok |-> TRUE, val |-> ChainId(namespace, reference), err |-> ""]

\* chain_id_serde::serialize
chain_id_serde_serialize(chain_id) ==
    chain_id.namespace \o <<":">> \o chain_id.reference

\* chain_id_serde::deserialize
chain_id_serde_deserialize(s) == ChainId_from_str(s)

\* Serialize_tuple: the fields in order
UniversalSubnetId_serialize(self) ==
    [root |-> chain_id_serde_serialize(self.root),
     children |-> self.children]

\* Deserialize_tuple
UniversalSubnetId_deserialize(ser) ==
    LET root == chain_id_serde_deserialize(ser.root)
    IN  IF root.ok
        THEN Ok(UniversalSubnetId_new(root.val, ser.children))
        ELSE [kind |-> "Err", variant |-> "Deserialize", raw |-> ser.root,
              msg |-> Reason(root.err)]

(***************************************************************************)
(* Inputs.                                                                 *)
(***************************************************************************)
SeqsUpTo(S, n) == UNION {[1..k -> S] : k \in 0..n}

RECURSIVE Concat(_)
Concat(ss) == IF ss = <<>> THEN <<>> ELSE ss[1] \o Concat(Tail(ss))

RootIds == {0, 123}

\* 32-byte transaction ids are shortened to one byte
\* hex texts handed to new_btc: lower and upper case digits, a text that
\* is not hex, an odd length, and 55 bytes, one more than a sub-address
\* holds
HexInputs ==
    {<<"2", "e">>, <<"2", "E">>, <<"z", "z">>, <<"2">>,
     SubSeq([i \in 1..(2 * (MAX_SUBADDRESS_LEN + 1)) |-> "0"], 1,
            2 * (MAX_SUBADDRESS_LEN + 1))}

Addresses == {Address_new_id(1), Address_new_id(2)}

\* the second identifier of a navigation call: any value SubnetID::from_str
\* returns for a canonical text
OtherIDs ==
    {o \in [root_network_type : {"Fevm", "Btc"},
            root : RootIds,
            children : SeqsUpTo(Addresses, MaxChildren)] :
        o.root_network_type = "Btc" => o.root # 0}

\* texts handed to the parsers: a prefix, a root and child segments,
\* well-formed or not
PrefixTexts ==
    {<<>>, <<"/">>, <<"/", "r">>, <<"/", "b">>, <<"r">>, <<"/", "x">>,
     <<"/", "/", "r">>, <<"/">> \o EIP155 \o <<":">>, EIP155 \o <<":">>,
     <<"/">> \o BIP122 \o <<":">>, <<"/", ":">>, <<"/", "x", ":", "y", ":">>}

RootTexts ==
    {<<>>, <<"0">>, <<"1">>, <<"0", "1">>, <<"+", "1">>, <<"-", "1">>,
     <<"1", "2", "3">>, <<"x">>,
     <<"3", "1", "4", "1", "5", "9", "2", "6">>,
     <<"1", "8", "4", "4", "6", "7", "4", "4", "0", "7",
       "3", "7", "0", "9", "5", "5", "1", "6", "1", "6">>}

\* the subnet actor of test_parse_subnet_id, an f2 address
SubnetActorText ==
    <<"f", "2", "x", "w", "z", "b", "d", "u", "7", "z", "5", "s", "a", "m",
      "6", "h", "c", "5", "7", "x", "x", "w", "k", "c", "t", "c", "i", "u",
      "a", "z", "7", "o", "e", "5", "o", "m", "i", "p", "w", "b", "q">>

SegmentTexts ==
    {<<"f", "0", "1">>, <<"f", "0", "2">>, <<"t", "0", "1">>, <<"f", "0">>,
     <<>>, <<"f", "0", "0", "1">>,
     <<"f", "4", "2", "0", "f", "f", "y", "k", "d", "f", "u", "m", "n">>,
     <<"f", "4", "2", "0", "f", "f", "y", "k", "d", "f", "u", "m", "m">>,
     <<"a", ":", "b">>, SubnetActorText}

\* the Bitcoin mainnet root of test_bitcoin_mainnet_universal_subnet_id
BitcoinMainnetText ==
    <<"/">> \o BIP122 \o <<":">>
        \o <<"0", "0", "0", "0", "0", "0", "0", "0", "0", "0", "1", "9",
           "d", "6", "6", "8", "9", "c", "0", "8", "5", "a", "e", "1",
           "6", "5", "8", "3", "1", "e", "9", "3", "4", "f", "f", "7",
           "6", "3", "a", "e", "4", "6", "a", "2", "a", "6", "c", "1",
           "7", "2", "b", "3", "f", "1", "b", "6", "0", "a", "8", "c",
           "e", "2", "6", "f">>

InputStrings ==
    {p \o r \o Concat([i \in DOMAIN segs |-> <<"/">> \o segs[i]]) :
        p \in PrefixTexts, r \in RootTexts,
        segs \in SeqsUpTo(SegmentTexts, MaxSegments)}
        \cup {BitcoinMainnetText}

\* parts handed to UniversalSubnetId::new
NamespaceTexts == {EIP155, BIP122, <<"x">>, <<>>, <<"x", "/">>, <<"x", ":">>}

ReferenceTexts ==
    {<<"1">>, <<"1", "2", "3">>, <<"0", "1">>, <<"A", "_">>, <<>>,
     <<"1", ":">>, <<"1", "/", "f", "0", "1">>}

ChildTexts ==
    {<<"f", "0", "1">>, <<"t", "0", "1">>, <<>>, <<"a", ":", "b">>,
     <<"f", "0", "1", "/", "f", "0", "2">>,
     <<"f", "4", "2", "0", "f", "f", "y", "k", "d", "f", "u", "m", "n">>}

(***************************************************************************)
(* State: the value the caller holds (cur), a second identifier it was     *)
(* given (other), the last operation (op), its operands (arg) and what it  *)
(* returned (out).                                                         *)
(***************************************************************************)
VARIABLES cur, other, op, arg, out

vars == <<cur, other, op, arg, out>>

Nothing == [type |-> "Nothing"]
Sid(v) == [type |-> "SubnetID", v |-> v]
Uid(v) == [type |-> "UniversalSubnetId", v |-> v]
Txt(s) == [type |-> "String", text |-> s]

\* what the caller holds after a call: the value returned, the value it
\* held when nothing is returned, nothing when the call unwinds
Held(before, type, result) ==
    CASE result.kind \in {"Ok", "Some"} -> [type |-> type, v |-> result.val]
      [] result.kind \in {"None", "Err"} -> before
      [] OTHER -> Nothing

\* SubnetID::default()
Init ==
    /\ cur = Sid(UNDEF)
    /\ other \in OtherIDs
    /\ op = "default"
    /\ arg = <<>>
    /\ out = Ok(UNDEF)

\* Outside input (a text, the parts of a universal id, the children of the
\* repository's chain-id test) is read by the first call; no parser or
\* universal operation reads `other`, so these inputs are explored for one
\* value of it.
FirstCall == op = "default" /\ other = UNDEF

\* children handed to SubnetID::new: paths over Addresses and, for a first
\* call, the path of test_chain_id
ChildrenAtHand ==
    SeqsUpTo(Addresses, MaxChildren)
        \cup (IF FirstCall THEN {<<Address_new_id(1001)>>} ELSE {})

New ==
    /\ op = "default"
    /\ \E root_id \in RootIds, children \in ChildrenAtHand :
        /\ op' = "new"
        /\ arg' = [root_id |-> root_id, children |-> children]
        /\ out' = Ok(SubnetID_new(root_id, children))
        /\ cur' = Sid(SubnetID_new(root_id, children))
        /\ UNCHANGED other

NewRoot ==
    \E root_id \in RootIds :
        /\ op' = "new_root"
        /\ arg' = [root_id |-> root_id]
        /\ out' = Ok(SubnetID_new_root(root_id))
        /\ cur' = Sid(SubnetID_new_root(root_id))
        /\ UNCHANGED other

\* hex texts handed to new_btc: every input for a first call, the
\* transaction id afterwards
HexAtHand == IF FirstCall THEN HexInputs ELSE {<<"2", "e">>}

NewBtc ==
    \E network_id \in RootIds, btc_id \in HexAtHand :
        /\ op' = "new_btc"
        /\ arg' = [network_id |-> network_id, btc_id |-> btc_id]
        /\ out' = SubnetID_new_btc(network_id, btc_id)
        /\ cur' = Held(cur, "SubnetID", SubnetID_new_btc(network_id, btc_id))
        /\ UNCHANGED other

NewFromParent ==
    /\ cur.type = "SubnetID"
    /\ Len(cur.v.children) < MaxChildren
    /\ \E subnet_act \in Addresses :
           /\ op' = "new_from_parent"
           /\ arg' = [parent |-> cur.v, subnet_act |-> subnet_act]
           /\ out' = Ok(SubnetID_new_from_parent(cur.v, subnet_act))
           /\ cur' = Sid(SubnetID_new_from_parent(cur.v, subnet_act))
           /\ UNCHANGED other

Parent ==
    /\ cur.type = "SubnetID"
    /\ op' = "parent"
    /\ arg' = [self |-> cur.v]
    /\ out' = SubnetID_parent(cur.v)
    /\ cur' = Held(cur, "SubnetID", SubnetID_parent(cur.v))
    /\ UNCHANGED other

\* subnet_actor reads self only: it is explored for one value of `other`
SubnetActor ==
    /\ cur.type = "SubnetID"
    /\ other = UNDEF
    /\ op' = "subnet_actor"
    /\ arg' = [self |-> cur.v]
    /\ out' = [kind |-> "Ok", address |-> SubnetID_subnet_actor(cur.v)]
    /\ UNCHANGED <<cur, other>>

CommonParent ==
    /\ cur.type = "SubnetID"
    /\ op' = "common_parent"
    /\ arg' = [self |-> cur.v, other |-> other]
    /\ out' = SubnetID_common_parent(cur.v, other)
    /\ cur' = Held(cur, "SubnetID", SubnetID_common_parent(cur.v, other))
    /\ UNCHANGED other

Down ==
    /\ cur.type = "SubnetID"
    /\ op' = "down"
    /\ arg' = [self |-> cur.v, other |-> other]
    /\ out' = SubnetID_down(cur.v, other)
    /\ cur' = Held(cur, "SubnetID", SubnetID_down(cur.v, other))
    /\ UNCHANGED other

Up ==
    /\ cur.type = "SubnetID"
    /\ op' = "up"
    /\ arg' = [self |-> cur.v, other |-> other]
    /\ out' = SubnetID_up(cur.v, other)
    /\ cur' = Held(cur, "SubnetID", SubnetID_up(cur.v, other))
    /\ UNCHANGED other

\* chain_id reads self only: it is explored for one value of `other`
ChainIdOf ==
    /\ cur.type = "SubnetID"
    /\ other = UNDEF
    /\ op' = "chain_id"
    /\ arg' = [self |-> cur.v]
    /\ out' = [kind |-> "Ok", u64 |-> SubnetID_chain_id(cur.v)]
    /\ UNCHANGED <<cur, other>>

Display ==
    /\ cur.type = "SubnetID"
    /\ op' = "to_string"
    /\ arg' = [self |-> cur.v]
    /\ out' = Ok(SubnetID_to_string(cur.v))
    /\ cur' = Txt(SubnetID_to_string(cur.v))
    /\ UNCHANGED other

\* a text is parsed when it arrives from outside or when it is the text the
\* caller holds
TextsAtHand ==
    (IF FirstCall THEN InputStrings ELSE {})
        \cup (IF cur.type = "String" THEN {cur.text} ELSE {})

FromStr ==
    \E id \in TextsAtHand :
        /\ op' = "from_str"
        /\ arg' = [id |-> id]
        /\ out' = SubnetID_from_str(id)
        /\ cur' = Held(Nothing, "SubnetID", SubnetID_from_str(id))
        /\ UNCHANGED other

UniversalNew ==
    /\ FirstCall
    /\ \E ns \in NamespaceTexts, ref \in ReferenceTexts,
          children \in SeqsUpTo(ChildTexts, MaxSegments) :
           /\ op' = "universal_new"
           /\ arg' = [root |-> ChainId(ns, ref), children |-> children]
           /\ out' = Ok(UniversalSubnetId_new(ChainId(ns, ref), children))
           /\ cur' = Uid(UniversalSubnetId_new(ChainId(ns, ref), children))
           /\ UNCHANGED other

UniversalNewRoot ==
    /\ FirstCall
    /\ \E ns \in NamespaceTexts, ref \in ReferenceTexts :
           /\ op' = "universal_new_root"
           /\ arg' = [root_id |-> ChainId(ns, ref)]
           /\ out' = Ok(UniversalSubnetId_new_root(ChainId(ns, ref)))
           /\ cur' = Uid(UniversalSubnetId_new_root(ChainId(ns, ref)))
           /\ UNCHANGED other

UniversalNewFromParent ==
    /\ cur.type = "UniversalSubnetId"
    /\ Len(cur.v.children) < MaxSegments
    /\ \E subnet_child \in ChildTexts :
           /\ op' = "universal_new_from_parent"
           /\ arg' = [parent |-> cur.v, subnet_child |-> subnet_child]
           /\ out' = Ok(UniversalSubnetId_new_from_parent(cur.v, subnet_child))
           /\ cur' = Uid(UniversalSubnetId_new_from_parent(cur.v,
                                                           subnet_child))
           /\ UNCHANGED other

UniversalParent ==
    /\ cur.type = "UniversalSubnetId"
    /\ op' = "universal_parent"
    /\ arg' = [self |-> cur.v]
    /\ out' = UniversalSubnetId_parent(cur.v)
    /\ cur' = Held(cur, "UniversalSubnetId", UniversalSubnetId_parent(cur.v))
    /\ UNCHANGED other

UniversalDisplay ==
    /\ cur.type = "UniversalSubnetId"
    /\ op' = "universal_to_string"
    /\ arg' = [self |-> cur.v]
    /\ out' = Ok(UniversalSubnetId_to_string(cur.v))
    /\ cur' = Txt(UniversalSubnetId_to_string(cur.v))
    /\ UNCHANGED other

UniversalFromStr ==
    \E s \in TextsAtHand :
        /\ op' = "universal_from_str"
        /\ arg' = [s |-> s]
        /\ out' = UniversalSubnetId_from_str(s)
        /\ cur' = Held(Nothing, "UniversalSubnetId", UniversalSubnetId_from_str(s))
        /\ UNCHANGED other

ToSubnetId ==
    /\ cur.type = "UniversalSubnetId"
    /\ op' = "to_subnet_id"
    /\ arg' = [self |-> cur.v]
    /\ out' = UniversalSubnetId_to_subnet_id(cur.v)
    /\ cur' = Held(cur, "SubnetID", UniversalSubnetId_to_subnet_id(cur.v))
    /\ UNCHANGED other

FromSubnetId ==
    /\ cur.type = "SubnetID"
    /\ op' = "from_subnet_id"
    /\ arg' = [subnet_id |-> cur.v]
    /\ out' = Ok(UniversalSubnetId_from_subnet_id(cur.v))
    /\ cur' = Uid(UniversalSubnetId_from_subnet_id(cur.v))
    /\ UNCHANGED other

Ser(v) == [type |-> "Serialized", ser |-> v]

\* serialization reads self only: it is explored for one value of `other`
Serialize ==
    /\ cur.type = "UniversalSubnetId"
    /\ other = UNDEF
    /\ op' = "serialize"
    /\ arg' = [self |-> cur.v]
    /\ out' = [kind |-> "Ok", ser |-> UniversalSubnetId_serialize(cur.v)]
    /\ cur' = Ser(UniversalSubnetId_serialize(cur.v))
    /\ UNCHANGED other

Deserialize ==
    /\ cur.type = "Serialized"
    /\ op' = "deserialize"
    /\ arg' = [serialized |-> cur.ser]
    /\ out' = UniversalSubnetId_deserialize(cur.ser)
    /\ cur' = Held(Nothing, "UniversalSubnetId",
                   UniversalSubnetId_deserialize(cur.ser))
    /\ UNCHANGED other

RootNetworkType ==
    /\ cur.type = "UniversalSubnetId"
    /\ op' = "universal_root_network_type"
    /\ arg' = [self |-> cur.v]
    /\ out' = UniversalSubnetId_root_network_type(cur.v)
    /\ UNCHANGED <<cur, other>>

Next ==
    \/ New
    \/ NewRoot
    \/ NewBtc
    \/ NewFromParent
    \/ Parent
    \/ SubnetActor
    \/ CommonParent
    \/ Down
    \/ Up
    \/ ChainIdOf
    \/ Display
    \/ FromStr
    \/ UniversalNew
    \/ UniversalNewRoot
    \/ UniversalNewFromParent
    \/ UniversalParent
    \/ UniversalDisplay
    \/ UniversalFromStr
    \/ ToSubnetId
    \/ FromSubnetId
    \/ Serialize
    \/ Deserialize
    \/ RootNetworkType

Spec == Init /\ [][Next]_vars

(***************************************************************************)
(* BtcSubnetManager: the operations that talk to the Bitcoin backend over  *)
(* JSON-RPC.  A JSON value is a record tagged by its type; strings are     *)
(* texts, objects are records of their members.                            *)
(***************************************************************************)
JNull == [t |-> "null"]
JBool(b) == [t |-> "bool", b |-> b]
\* a number is an integer, or is written with a fraction and is then a
\* float: `i` is what stands before the decimal point and `frac` the digits
\* after it.  The integers of the model are below 2^31: the integers above
\* i64::MAX, for which as_i64 alone is None, are not among them.
JInt(i) == [t |-> "number", i |-> i, frac |-> <<>>]
JFloat(i, frac) == [t |-> "number", i |-> i, frac |-> frac]
JStr(s) == [t |-> "string", s |-> s]
JArr(a) == [t |-> "array", a |-> a]
JObject(m) == [t |-> "object", m |-> m]
\* a response body that is not JSON
NotJson == [t |-> "invalid"]

\* members m and one more
With(m, k, v) == [x \in DOMAIN m \cup {k} |-> IF x = k THEN v ELSE m[x]]

\* serde_json Value::get(key), Value::as_i64, as_u64, as_str, as_bool,
\* as_array, each lifted over Option as `.get(..).and_then(..)` uses them
Value_get(o, key) ==
    IF o.kind = "Some" /\ o.val.t = "object" /\ key \in DOMAIN o.val.m
    THEN Some(o.val.m[key])
    ELSE None

\* Number::is_f64: the number was written with a fraction
is_f64(number) == number.frac # <<>>

Value_as_i64(o) ==
    IF o.kind = "Some" /\ o.val.t = "number" /\ ~is_f64(o.val)
    THEN Some(o.val.i)
    ELSE None

Value_as_u64(o) ==
    IF o.kind = "Some" /\ o.val.t = "number" /\ ~is_f64(o.val)
           /\ o.val.i >= 0
    THEN Some(o.val.i)
    ELSE None

Value_as_str(o) ==
    IF o.kind = "Some" /\ o.val.t = "string" THEN Some(o.val.s) ELSE None

Value_as_bool(o) ==
    IF o.kind = "Some" /\ o.val.t = "bool" THEN Some(o.val.b) ELSE None

Value_as_array(o) ==
    IF o.kind = "Some" /\ o.val.t = "array" THEN Some(o.val.a) ELSE None

\* Option::unwrap_or
unwrap_or(o, default) == IF o.kind = "Some" THEN o.val ELSE default

\* Display of an i64
i64_to_string(n) ==
    IF n < 0 THEN <<"-">> \o u64_to_string(0 - n) ELSE u64_to_string(n)

\* anyhow!(fmt, args..): the format string and the Display text of each
\* argument, in order
anyhow(fmt, args) == [kind |-> "Err", fmt |-> fmt, args |-> args]

\* StatusCode::is_success: 200..=299
is_success(status) == status >= 200 /\ status <= 299

\* Display of a StatusCode: the number and its canonical reason, the
\* phrase registered for the code (http 0.2), or a placeholder for a code
\* that has none
canonical_reason(status) ==
    CASE status = 100 -> <<"C", "o", "n", "t", "i", "n", "u", "e">>
      [] status = 101 -> <<"S", "w", "i", "t", "c", "h", "i", "n", "g", " ",
             "P", "r", "o", "t", "o", "c", "o", "l", "s">>
      [] status = 102 -> <<"P", "r", "o", "c", "e", "s", "s", "i", "n", "g">>
      [] status = 200 -> <<"O", "K">>
      [] status = 201 -> <<"C", "r", "e", "a", "t", "e", "d">>
      [] status = 202 -> <<"A", "c", "c", "e", "p", "t", "e", "d">>
      [] status = 203 -> <<"N", "o", "n", " ", "A", "u", "t", "h", "o", "r",
             "i", "t", "a", "t", "i", "v", "e", " ", "I", "n", "f", "o",
             "r", "m", "a", "t", "i", "o", "n">>
      [] status = 204 -> <<"N", "o", " ", "C", "o", "n", "t", "e", "n", "t">>
      [] status = 205 -> <<"R", "e", "s", "e", "t", " ", "C", "o", "n", "t",
             "e", "n", "t">>
      [] status = 206 -> <<"P", "a", "r", "t", "i", "a", "l", " ", "C", "o",
             "n", "t", "e", "n", "t">>
      [] status = 207 -> <<"M", "u", "l", "t", "i", "-", "S", "t", "a", "t",
             "u", "s">>
      [] status = 208 -> <<"A", "l", "r", "e", "a", "d", "y", " ", "R", "e",
             "p", "o", "r", "t", "e", "d">>
      [] status = 226 -> <<"I", "M", " ", "U", "s", "e", "d">>
      [] status = 300 -> <<"M", "u", "l", "t", "i", "p", "l", "e", " ", "C",
             "h", "o", "i", "c", "e", "s">>
      [] status = 301 -> <<"M", "o", "v", "e", "d", " ", "P", "e", "r", "m",
             "a", "n", "e", "n", "t", "l", "y">>
      [] status = 302 -> <<"F", "o", "u", "n", "d">>
      [] status = 303 -> <<"S", "e", "e", " ", "O", "t", "h", "e", "r">>
      [] status = 304 -> <<"N", "o", "t", " ", "M", "o", "d", "i", "f", "i",
             "e", "d">>
      [] status = 305 -> <<"U", "s", "e", " ", "P", "r", "o", "x", "y">>
      [] status = 307 -> <<"T", "e", "m", "p", "o", "r", "a", "r", "y", " ",
             "R", "e", "d", "i", "r", "e", "c", "t">>
      [] status = 308 -> <<"P", "e", "r", "m", "a", "n", "e", "n", "t", " ",
             "R", "e", "d", "i", "r", "e", "c", "t">>
      [] status = 400 -> <<"B", "a", "d", " ", "R", "e", "q", "u", "e", "s",
             "t">>
      [] status = 401 -> <<"U", "n", "a", "u", "t", "h", "o", "r", "i", "z",
             "e", "d">>
      [] status = 402 -> <<"P", "a", "y", "m", "e", "n", "t", " ", "R", "e",
             "q", "u", "i", "r", "e", "d">>
      [] status = 403 -> <<"F", "o", "r", "b", "i", "d", "d", "e", "n">>
      [] status = 404 -> <<"N", "o", "t", " ", "F", "o", "u", "n", "d">>
      [] status = 405 -> <<"M", "e", "t", "h", "o", "d", " ", "N", "o", "t",
             " ", "A", "l", "l", "o", "w", "e", "d">>
      [] status = 406 -> <<"N", "o", "t", " ", "A", "c", "c", "e", "p", "t",
             "a", "b", "l", "e">>
      [] status = 407 -> <<"P", "r", "o", "x", "y", " ", "A", "u", "t", "h",
             "e", "n", "t", "i", "c", "a", "t", "i", "o", "n", " ", "R",
             "e", "q", "u", "i", "r", "e", "d">>
      [] status = 408 -> <<"R", "e", "q", "u", "e", "s", "t", " ", "T", "i",
             "m", "e", "o", "u", "t">>
      [] status = 409 -> <<"C", "o", "n", "f", "l", "i", "c", "t">>
      [] status = 410 -> <<"G", "o", "n", "e">>
      [] status = 411 -> <<"L", "e", "n", "g", "t", "h", " ", "R", "e", "q",
             "u", "i", "r", "e", "d">>
      [] status = 412 -> <<"P", "r", "e", "c", "o", "n", "d", "i", "t", "i",
             "o", "n", " ", "F", "a", "i", "l", "e", "d">>
      [] status = 413 -> <<"P", "a", "y", "l", "o", "a", "d", " ", "T", "o",
             "o", " ", "L", "a", "r", "g", "e">>
      [] status = 414 -> <<"U", "R", "I", " ", "T", "o", "o", " ", "L", "o",
             "n", "g">>
      [] status = 415 -> <<"U", "n", "s", "u", "p", "p", "o", "r", "t", "e",
             "d", " ", "M", "e", "d", "i", "a", " ", "T", "y", "p", "e">>
      [] status = 416 -> <<"R", "a", "n", "g", "e", " ", "N", "o", "t", " ",
             "S", "a", "t", "i", "s", "f", "i", "a", "b", "l", "e">>
      [] status = 417 -> <<"E", "x", "p", "e", "c", "t", "a", "t", "i", "o",
             "n", " ", "F", "a", "i", "l", "e", "d">>
      [] status = 418 -> <<"I", "'", "m", " ", "a", " ", "t", "e", "a", "p",
             "o", "t">>
      [] status = 421 -> <<"M", "i", "s", "d", "i", "r", "e", "c", "t", "e",
             "d", " ", "R", "e", "q", "u", "e", "s", "t">>
      [] status = 422 -> <<"U", "n", "p", "r", "o", "c", "e", "s", "s", "a",
             "b", "l", "e", " ", "E", "n", "t", "i", "t", "y">>
      [] status = 423 -> <<"L", "o", "c", "k", "e", "d">>
      [] status = 424 -> <<"F", "a", "i", "l", "e", "d", " ", "D", "e", "p",
             "e", "n", "d", "e", "n", "c", "y">>
      [] status = 426 -> <<"U", "p", "g", "r", "a", "d", "e", " ", "R", "e",
             "q", "u", "i", "r", "e", "d">>
      [] status = 428 -> <<"P", "r", "e", "c", "o", "n", "d", "i", "t", "i",
             "o", "n", " ", "R", "e", "q", "u", "i", "r", "e", "d">>
      [] status = 429 -> <<"T", "o", "o", " ", "M", "a", "n", "y", " ", "R",
             "e", "q", "u", "e", "s", "t", "s">>
      [] status = 431 -> <<"R", "e", "q", "u", "e", "s", "t", " ", "H", "e",
             "a", "d", "e", "r", " ", "F", "i", "e", "l", "d", "s", " ",
             "T", "o", "o", " ", "L", "a", "r", "g", "e">>
      [] status = 451 -> <<"U", "n", "a", "v", "a", "i", "l", "a", "b", "l",
             "e", " ", "F", "o", "r", " ", "L", "e", "g", "a", "l", " ",
             "R", "e", "a", "s", "o", "n", "s">>
      [] status = 500 -> <<"I", "n", "t", "e", "r", "n", "a", "l", " ", "S",
             "e", "r", "v", "e", "r", " ", "E", "r", "r", "o", "r">>
      [] status = 501 -> <<"N", "o", "t", " ", "I", "m", "p", "l", "e", "m",
             "e", "n", "t", "e", "d">>
      [] status = 502 -> <<"B", "a", "d", " ", "G", "a", "t", "e", "w", "a",
             "y">>
      [] status = 503 -> <<"S", "e", "r", "v", "i", "c", "e", " ", "U", "n",
             "a", "v", "a", "i", "l", "a", "b", "l", "e">>
      [] status = 504 -> <<"G", "a", "t", "e", "w", "a", "y", " ", "T", "i",
             "m", "e", "o", "u", "t">>
      [] status = 505 -> <<"H", "T", "T", "P", " ", "V", "e", "r", "s", "i",
             "o", "n", " ", "N", "o", "t", " ", "S", "u", "p", "p", "o",
             "r", "t", "e", "d">>
      [] status = 506 -> <<"V", "a", "r", "i", "a", "n", "t", " ", "A", "l",
             "s", "o", " ", "N", "e", "g", "o", "t", "i", "a", "t", "e",
             "s">>
      [] status = 507 -> <<"I", "n", "s", "u", "f", "f", "i", "c", "i", "e",
             "n", "t", " ", "S", "t", "o", "r", "a", "g", "e">>
      [] status = 508 -> <<"L", "o", "o", "p", " ", "D", "e", "t", "e", "c",
             "t", "e", "d">>
      [] status = 510 -> <<"N", "o", "t", " ", "E", "x", "t", "e", "n", "d",
             "e", "d">>
      [] status = 511 -> <<"N", "e", "t", "w", "o", "r", "k", " ", "A", "u",
             "t", "h", "e", "n", "t", "i", "c", "a", "t", "i", "o", "n",
             " ", "R", "e", "q", "u", "i", "r", "e", "d">>
      [] OTHER -> <<"<", "u", "n", "k", "n", "o", "w", "n", " ", "s", "t",
             "a", "t", "u", "s", " ", "c", "o", "d", "e", ">">>

status_to_string(status) ==
    u64_to_string(status) \o <<" ">> \o canonical_reason(status)

\* what the backend answers to a request: the transport fails, or a status
\* and a body arrive
Answer(status, body) ==
    [transport |-> "ok", status |-> status, body |-> body]
TransportFailure == [transport |-> "failed", status |-> 0, body |-> NotJson]

\* the error branch of a response that carries an "error" member
JsonRpcError(err_obj) ==
    anyhow("JSON-RPC error: code={}, message={}, details={}",
           <<i64_to_string(unwrap_or(Value_as_i64(Value_get(err_obj, "code")),
                                     0)),
             unwrap_or(Value_as_str(Value_get(err_obj, "message")),
                       <<"U", "n", "k", "n", "o", "w", "n", " ", "e", "r",
                           "r", "o", "r">>),
             unwrap_or(Value_as_str(Value_get(err_obj, "data")), <<>>)>>)

\* send, status check, body decoding and error check shared by every
\* operation; `failed` is the operation's own status message
Continue == [kind |-> "Continue"]

\* the same with the result looked at before the error
exchange_result_mut(response, failed) ==
    IF response.transport = "failed"
    THEN anyhow("error sending request", <<>>)
    ELSE IF ~is_success(response.status)
    THEN anyhow(failed, <<status_to_string(response.status)>>)
    ELSE IF response.body.t = "invalid"
    THEN anyhow("error decoding response body", <<>>)
    ELSE IF Value_get(Some(response.body), "result").kind = "Some"
    THEN Continue
    ELSE IF Value_get(Some(response.body), "error").kind = "Some"
    THEN JsonRpcError(Value_get(Some(response.body), "error"))
    ELSE Continue

exchange(response, failed) ==
    IF response.transport = "failed"
    THEN anyhow("error sending request", <<>>)
    ELSE IF ~is_success(response.status)
    THEN anyhow(failed, <<status_to_string(response.status)>>)
    ELSE IF response.body.t = "invalid"
    THEN anyhow("error decoding response body", <<>>)
    ELSE IF Value_get(Some(response.body), "error").kind = "Some"
    THEN JsonRpcError(Value_get(Some(response.body), "error"))
    ELSE Continue

\* the request envelope of json!({..})
Request(method, params) ==
    [jsonrpc |-> "2.0", method |-> method, id |-> 1, params |-> params]

\* what one call does: the requests it posted and what it returned
Call(sent, result) == [sent |-> sent, result |-> result]

\* ipc_api::evm::payload_to_evm_address: the first 20 bytes of a delegated
\* address's sub-address; slicing a shorter sub-address panics
payload_to_evm_address(address) ==
    IF address.protocol # 4
    THEN anyhow("Invalid delegated address", <<>>)
    ELSE IF Len(address.subaddress) < 20 THEN Panic
    ELSE [kind |-> "Ok", bytes |-> SubSeq(address.subaddress, 1, 20)]

Unsupported == anyhow("Unsupported subnet configuration", <<>>)

\* create_subnet with the tag looked at after the request is posted
BtcSubnetManager_create_subnet_mut(params, response) ==
    Call(<<Request("createsubnet", [tag |-> params.tag])>>, Unsupported)

BtcSubnetManager_create_subnet(params, response) ==
    IF params.tag = "Eth" THEN Call(<<>>, Unsupported)
    ELSE LET body ==
                 Request("createsubnet",
                     [min_validator_stake |-> params.min_validator_stake,
                      min_validators |-> params.min_validators,
                      bottomup_check_period |-> params.bottomup_check_period,
                      active_validators_limit |->
                          params.active_validators_limit,
                      min_cross_msg_fee |-> params.min_cross_msg_fee,
                      whitelist |-> params.validator_whitelist])
             checked ==
                 exchange(response,
                          "Create Subnet request failed with status: {}")
             subnet_id ==
                 Value_as_str(Value_get(Value_get(Some(response.body),
                                                  "result"),
                                        "subnet_id"))
         IN  Call(<<body>>,
                  IF checked.kind # "Continue" THEN checked
                  ELSE IF subnet_id.kind = "None"
                  THEN anyhow(
                         "Missing 'result.subnet_id' in JSON-RPC response",
                         <<>>)
                  ELSE Bind(SubnetID_from_str(subnet_id.val),
                            LAMBDA parsed :
                      IF parsed.kind = "Err" THEN parsed
                      ELSE IF parsed.val.children = <<>>
                      THEN anyhow(
                             "Newly created subnet must have a child in ID",
                             <<>>)
                      ELSE [kind |-> "Ok",
                            address |->
                                parsed.val.children[
                                    Len(parsed.val.children)]]))

BtcSubnetManager_join_subnet(params, response) ==
    IF params.tag = "Eth" THEN Call(<<>>, Unsupported)
    ELSE LET body ==
                 Request("joinsubnet",
                     [subnet_id |-> SubnetID_to_string(params.subnet_id),
                      pubkey |-> params.sender_public_key,
                      collateral |-> params.collateral,
                      ip |-> params.ip,
                      backup_address |-> params.backup_address])
             checked ==
                 exchange(response,
                          "Join Subnet request failed with status: {}")
             tx_id ==
                 Value_as_str(Value_get(Value_get(Some(response.body),
                                                  "result"),
                                        "join_txid"))
         IN  Call(<<body>>,
                  IF checked.kind # "Continue" THEN checked
                  ELSE IF tx_id.kind = "None"
                  THEN anyhow(
                         "Missing 'result.join_txid' in JSON-RPC response",
                         <<>>)
                  ELSE [kind |-> "Ok", epoch |-> 0])

BtcSubnetManager_pre_fund(params, response) ==
    IF params.tag = "Eth" THEN Call(<<>>, Unsupported)
    ELSE LET address == payload_to_evm_address(params.dst_address)
             body ==
                 Request("prefundsubnet",
                     [subnet_id |-> SubnetID_to_string(params.subnet_id),
                      amount |-> params.amount,
                      address |-> address.bytes])
             checked ==
                 exchange(response, "Pre-fund request failed with status: {}")
         IN  IF address.kind # "Ok" THEN Call(<<>>, address)
             ELSE Call(<<body>>,
                       IF checked.kind # "Continue" THEN checked
                       ELSE [kind |-> "Ok", unit |-> TRUE])

\* a fund that posts its request once more when the first attempt failed
BtcSubnetManager_fund_mut(params, response) ==
    IF params.tag = "Eth" THEN Call(<<>>, Unsupported)
    ELSE LET address == payload_to_evm_address(params.dst_address)
             body ==
                 Request("fundsubnet",
                     [subnet_id |-> SubnetID_to_string(params.subnet_id),
                      amount |-> params.amount,
                      address |-> address.bytes])
             checked ==
                 exchange(response, "Fund request failed with status: {}")
         IN  IF address.kind # "Ok" THEN Call(<<>>, address)
             ELSE Call(IF checked.kind # "Continue" THEN <<body, body>>
                       ELSE <<body>>,
                       IF checked.kind # "Continue" THEN checked
                       ELSE [kind |-> "Ok", epoch |-> 0])

BtcSubnetManager_fund(params, response) ==
    IF params.tag = "Eth" THEN Call(<<>>, Unsupported)
    ELSE LET address == payload_to_evm_address(params.dst_address)
             body ==
                 Request("fundsubnet",
                     [subnet_id |-> SubnetID_to_string(params.subnet_id),
                      amount |-> params.amount,
                      address |-> address.bytes])
             checked ==
                 exchange(response, "Fund request failed with status: {}")
         IN  IF address.kind # "Ok" THEN Call(<<>>, address)
             ELSE Call(<<body>>,
                       IF checked.kind # "Continue" THEN checked
                       ELSE [kind |-> "Ok", epoch |-> 0])

BtcSubnetManager_genesis_epoch(subnet_id, response) ==
    LET body ==
            Request("getgenesisinfo",
                    [subnet_id |-> SubnetID_to_string(subnet_id)])
        checked ==
            exchange(response,
                     "btc getgenesisinfo request failed with status: {}")
        result == Value_get(Some(response.body), "result")
        height == Value_as_i64(Value_get(result, "genesis_block_height"))
    IN  Call(<<body>>,
             IF checked.kind # "Continue" THEN checked
             ELSE IF result.kind = "None"
             THEN anyhow("No result found", <<>>)
             ELSE IF height.kind = "None"
             THEN anyhow("Invalid bootstrap_block_height", <<>>)
             ELSE [kind |-> "Ok", epoch |-> height.val])

\* fixed-size hashes of ethers (H160, H256) from text: after an optional
\* "0x" the digits are read in pairs, one byte of the hash at a time, and a
\* space, tab, line feed or carriage return between them is passed over.
\* A character that is no hex digit fails where it is read, with its
\* position in the text after the "0x"; a text that ends before the hash is
\* full, or holds anything but white space after it, has the wrong length.
\* `err` is the rustc_hex::FromHexError as anyhow carries it.
fixed_hash_from_str(s, size) ==
    Bind(IF starts_with(s, <<"0", "x">>) THEN SubSeq(s, 3, Len(s)) ELSE s,
         LAMBDA input :
    Bind(SelectSeq([i \in 1..Len(input) |-> i],
                   LAMBDA i : input[i] \notin {" ", "\t", "\n", "\r"}),
         LAMBDA at :
    Bind(IF Len(at) > 2 * size THEN 2 * size ELSE Len(at),
         LAMBDA read :
        IF \E k \in 1..read : HexVal(input[at[k]]) < 0
        THEN Bind(CHOOSE k \in 1..read :
                      /\ HexVal(input[at[k]]) < 0
                      /\ \A j \in 1..(k - 1) : HexVal(input[at[j]]) >= 0,
                  LAMBDA k :
                      [ok |-> FALSE, bytes |-> <<>>,
                       err |->
                           anyhow("Invalid character '{}' at position {}",
                                  <<<<input[at[k]]>>,
                                    u64_to_string(at[k] - 1)>>)])
        ELSE IF Len(at) # 2 * size
        THEN [ok |-> FALSE, bytes |-> <<>>,
              err |-> anyhow("Invalid input length", <<>>)]
        ELSE [ok |-> TRUE,
              bytes |-> hex_decode([k \in 1..Len(at) |-> input[at[k]]]).bytes,
              err |-> anyhow("", <<>>)])))

\* Address::from(EthAddress) of the 20 bytes: an address that starts with
\* 0xff and eleven zero bytes is the ID address of its last eight bytes
\* (big-endian; an id below 2^31), any other is the delegated address of
\* the EAM namespace that wraps the 20 bytes
EAM_NAMESPACE == 10
ethers_address_to_fil_address(bytes) ==
    IF bytes[1] = 255 /\ \A i \in 2..12 : bytes[i] = 0
    THEN AddrOk(Address_new_id(
             bytes[20] + 256 * bytes[19] + 65536 * bytes[18]
                 + 16777216 * bytes[17]
                 + (IF \A i \in 13..16 : bytes[i] = 0 THEN 0
                    ELSE Pow256(4))))
    ELSE Address_new_delegated(EAM_NAMESPACE, bytes)

\* a TokenAmount is kept as the decimal text of its atto value: the text of
\* n followed by `zeros` zeros
Zeros(k) == [i \in 1..k |-> "0"]
scaled_text(n, zeros) ==
    IF n = 0 THEN <<"0">> ELSE i64_to_string(n) \o Zeros(zeros)

\* satoshi (8 decimals) to atto (18 decimals)
SATOSHI_TO_ATTO_ZEROS == 10
token_amount_from_satoshi(satoshi) ==
    [atto |-> scaled_text(satoshi, SATOSHI_TO_ATTO_ZEROS)]

\* TokenAmount::from_whole: 18 decimals
WHOLE_TO_ATTO_ZEROS == 18
TokenAmount_from_whole(tokens) ==
    [atto |-> scaled_text(tokens, WHOLE_TO_ATTO_ZEROS)]

U16_MAX == 65535

\* what the filter_map closure reads of one entry of genesis_validators
genesis_validator_members(v) ==
    [subnet_address |-> Value_as_str(Value_get(Some(v), "subnet_address")),
     collateral |-> Value_as_u64(Value_get(Some(v), "collateral")),
     pubkey |-> Value_as_str(Value_get(Some(v), "pubkey"))]

\* a closure that keeps an entry whose public key is not hex
genesis_validator_mut(v) ==
    Bind(genesis_validator_members(v), LAMBDA m :
        IF m.subnet_address.kind = "None" \/ m.collateral.kind = "None"
           \/ m.pubkey.kind = "None"
        THEN None
        ELSE Bind([decoded |-> hex_decode(m.pubkey.val),
                   addr |-> fixed_hash_from_str(m.subnet_address.val, 20)],
                  LAMBDA p :
            IF ~p.addr.ok THEN None
            ELSE IF ~ethers_address_to_fil_address(p.addr.bytes).ok
            THEN None
            ELSE Some([addr |->
                           ethers_address_to_fil_address(p.addr.bytes).val,
                       metadata |-> <<2>> \o p.decoded.bytes,
                       weight |->
                           token_amount_from_satoshi(m.collateral.val)])))

\* the closure: None for an entry with a member missing or malformed
genesis_validator(v) ==
    Bind(genesis_validator_members(v), LAMBDA m :
        IF m.subnet_address.kind = "None" \/ m.collateral.kind = "None"
           \/ m.pubkey.kind = "None"
        THEN None
        ELSE Bind([decoded |-> hex_decode(m.pubkey.val),
                   addr |-> fixed_hash_from_str(m.subnet_address.val, 20)],
                  LAMBDA p :
            IF ~p.decoded.ok \/ ~p.addr.ok THEN None
            ELSE IF ~ethers_address_to_fil_address(p.addr.bytes).ok
            THEN None
            ELSE Some([addr |->
                           ethers_address_to_fil_address(p.addr.bytes).val,
                       metadata |-> <<2>> \o p.decoded.bytes,
                       weight |->
                           token_amount_from_satoshi(m.collateral.val)])))

\* filter_map(..).collect(): the entries that parse, in order
RECURSIVE genesis_validators_collect(_)
genesis_validators_collect(entries) ==
    IF entries = <<>> THEN <<>>
    ELSE Bind(genesis_validator(entries[1]), LAMBDA v :
             (IF v.kind = "Some" THEN <<v.val>> ELSE <<>>)
                 \o genesis_validators_collect(Tail(entries)))

\* get_genesis_info with the bootstrapped flag looked at last
BtcSubnetManager_get_genesis_info_mut(subnet_id, response) ==
    LET body ==
            Request("getgenesisinfo",
                    [subnet_id |-> SubnetID_to_string(subnet_id)])
        checked ==
            exchange(response,
                     "btc getgenesisinfo request failed with status: {}")
        result == Value_get(Some(response.body), "result")
        bootstrapped ==
            unwrap_or(Value_as_bool(Value_get(result, "bootstrapped")), FALSE)
        create_subnet_msg == Value_get(result, "create_subnet_msg")
        min_validator_stake ==
            Value_as_u64(Value_get(create_subnet_msg, "min_validator_stake"))
        active_validators_limit ==
            Value_as_u64(Value_get(create_subnet_msg,
                                   "active_validators_limit"))
        bottomup_check_period ==
            Value_as_u64(Value_get(create_subnet_msg,
                                   "bottomup_check_period"))
        genesis_validators ==
            Value_as_array(Value_get(result, "genesis_validators"))
    IN  Call(<<body>>,
          IF checked.kind # "Continue" THEN checked
          ELSE IF result.kind = "None" THEN anyhow("No result found", <<>>)
          ELSE IF create_subnet_msg.kind = "None"
          THEN anyhow("No create_subnet_msg found", <<>>)
          ELSE IF min_validator_stake.kind = "None"
          THEN anyhow("Invalid min_validator_stake", <<>>)
          ELSE IF active_validators_limit.kind = "None"
          THEN anyhow("Invalid active_validators_limit", <<>>)
          ELSE IF active_validators_limit.val > U16_MAX
          THEN anyhow("active_validators_limit exceeds maximum u16 value",
                      <<>>)
          ELSE IF bottomup_check_period.kind = "None"
          THEN anyhow("Invalid bottomup_check_period", <<>>)
          ELSE IF genesis_validators.kind = "None"
          THEN anyhow("No genesis_validators found", <<>>)
          ELSE IF bootstrapped = FALSE
          THEN anyhow("Subnet not bootstrapped", <<>>)
          ELSE [kind |-> "Ok",
                info |->
                  [active_validators_limit |-> active_validators_limit.val,
                   bottom_up_checkpoint_period |-> bottomup_check_period.val,
                   genesis_epoch |->
                       unwrap_or(Value_as_i64(
                                     Value_get(result,
                                               "genesis_block_height")),
                                 0),
                   majority_percentage |-> 66,
                   min_collateral |->
                       token_amount_from_satoshi(min_validator_stake.val),
                   validators |->
                       genesis_validators_collect(genesis_validators.val),
                   genesis_balances |-> {},
                   permission_mode |-> "Collateral",
                   supply_source |-> [kind |-> "Native",
                                      token_address |-> None]]])

BtcSubnetManager_get_genesis_info(subnet_id, response) ==
    LET body ==
            Request("getgenesisinfo",
                    [subnet_id |-> SubnetID_to_string(subnet_id)])
        checked ==
            exchange(response,
                     "btc getgenesisinfo request failed with status: {}")
        result == Value_get(Some(response.body), "result")
        bootstrapped ==
            unwrap_or(Value_as_bool(Value_get(result, "bootstrapped")), FALSE)
        create_subnet_msg == Value_get(result, "create_subnet_msg")
        min_validator_stake ==
            Value_as_u64(Value_get(create_subnet_msg, "min_validator_stake"))
        active_validators_limit ==
            Value_as_u64(Value_get(create_subnet_msg,
                                   "active_validators_limit"))
        bottomup_check_period ==
            Value_as_u64(Value_get(create_subnet_msg,
                                   "bottomup_check_period"))
        genesis_validators ==
            Value_as_array(Value_get(result, "genesis_validators"))
    IN  Call(<<body>>,
          IF checked.kind # "Continue" THEN checked
          ELSE IF result.kind = "None" THEN anyhow("No result found", <<>>)
          ELSE IF bootstrapped = FALSE
          THEN anyhow("Subnet not bootstrapped", <<>>)
          ELSE IF create_subnet_msg.kind = "None"
          THEN anyhow("No create_subnet_msg found", <<>>)
          ELSE IF min_validator_stake.kind = "None"
          THEN anyhow("Invalid min_validator_stake", <<>>)
          ELSE IF active_validators_limit.kind = "None"
          THEN anyhow("Invalid active_validators_limit", <<>>)
          ELSE IF active_validators_limit.val > U16_MAX
          THEN anyhow("active_validators_limit exceeds maximum u16 value",
                      <<>>)
          ELSE IF bottomup_check_period.kind = "None"
          THEN anyhow("Invalid bottomup_check_period", <<>>)
          ELSE IF genesis_validators.kind = "None"
          THEN anyhow("No genesis_validators found", <<>>)
          ELSE [kind |-> "Ok",
                info |->
                  [active_validators_limit |-> active_validators_limit.val,
                   bottom_up_checkpoint_period |-> bottomup_check_period.val,
                   genesis_epoch |->
                       unwrap_or(Value_as_i64(
                                     Value_get(result,
                                               "genesis_block_height")),
                                 0),
                   majority_percentage |-> 66,
                   min_collateral |->
                       token_amount_from_satoshi(min_validator_stake.val),
                   validators |->
                       genesis_validators_collect(genesis_validators.val),
                   genesis_balances |-> {},
                   permission_mode |-> "Collateral",
                   supply_source |-> [kind |-> "Native",
                                      token_address |-> None]]])

\* IPCAddress::new(subnet, address)
IPCAddress_new(subnet_id, raw_address) ==
    [subnet_id |-> subnet_id, raw_address |-> raw_address]

\* a reading of the entry that takes the nonce from the amount
top_down_members_mut(result) ==
    [kind |-> Value_as_str(Value_get(Some(result), "kind")),
     subnet_id |->
         Value_as_str(Value_get(Value_get(Some(result), "msg"),
                                "subnet_id")),
     amount |->
         Value_as_i64(Value_get(Value_get(Some(result), "msg"), "amount")),
     address |->
         Value_as_str(Value_get(Value_get(Some(result), "msg"), "address")),
     block_hash |-> Value_as_str(Value_get(Some(result), "block_hash")),
     nonce |->
         Value_as_u64(Value_get(Value_get(Some(result), "msg"), "amount"))]

\* what the loop body reads of one result entry
top_down_members(result) ==
    [kind |-> Value_as_str(Value_get(Some(result), "kind")),
     subnet_id |->
         Value_as_str(Value_get(Value_get(Some(result), "msg"),
                                "subnet_id")),
     amount |->
         Value_as_i64(Value_get(Value_get(Some(result), "msg"), "amount")),
     address |->
         Value_as_str(Value_get(Value_get(Some(result), "msg"), "address")),
     block_hash |-> Value_as_str(Value_get(Some(result), "block_hash")),
     nonce |-> Value_as_u64(Value_get(Some(result), "nonce"))]

\* the texts among them parsed; a missing text parses as the empty text and
\* is reported missing before its parse is looked at
top_down_parsed(m) ==
    [target |-> SubnetID_from_str(unwrap_or(m.subnet_id, <<>>)),
     address |-> fixed_hash_from_str(unwrap_or(m.address, <<>>), 20),
     block_hash |-> fixed_hash_from_str(unwrap_or(m.block_hash, <<>>), 32)]

\* a loop body that does not compare an entry's block hash with the one
\* before it
top_down_checks_mut(m, p, prev_block_hash, subnet_id) ==
    LET fil == ethers_address_to_fil_address(p.address.bytes)
        from == Address_new_delegated(BTC_NAMESPACE, [i \in 1..20 |-> 0])
    IN  IF m.kind.kind = "None"
        THEN anyhow("Field kind not found in result", <<>>)
        ELSE IF m.kind.val # <<"f", "u", "n", "d">>
        THEN anyhow("Unknown kind in result", <<>>)
        ELSE IF m.subnet_id.kind = "None"
        THEN anyhow("Field subnet_id not found in result", <<>>)
        ELSE IF p.target.kind = "Err" THEN p.target
        ELSE IF m.amount.kind = "None"
        THEN anyhow("Field amount not found in result", <<>>)
        ELSE IF m.address.kind = "None"
        THEN anyhow("Field address not found in result", <<>>)
        ELSE IF ~p.address.ok THEN p.address.err
        ELSE IF ~fil.ok THEN anyhow("invalid delegated address", <<>>)
        ELSE IF m.block_hash.kind = "None"
        THEN anyhow("Field block_hash not found in result", <<>>)
        ELSE IF ~p.block_hash.ok THEN p.block_hash.err
        ELSE IF m.nonce.kind = "None"
        THEN anyhow("Field nonce not found in result", <<>>)
        ELSE IF ~from.ok THEN anyhow("invalid delegated address", <<>>)
        ELSE [kind |-> "Ok",
              block_hash |-> p.block_hash.bytes,
              envelope |->
                [kind |-> "Transfer",
                 to |-> IPCAddress_new(p.target.val, fil.val),
                 value |-> TokenAmount_from_whole(m.amount.val),
                 from |-> IPCAddress_new(SubnetID_new_root(subnet_id.root),
                                         from.val),
                 message |-> <<>>,
                 nonce |-> m.nonce.val]]

\* the body of the loop over the result entries: the envelope of one entry,
\* or the error that ends the call; prev_block_hash is the block hash of
\* the entries before it (None before the first)
top_down_checks(m, p, prev_block_hash, subnet_id) ==
    LET fil == ethers_address_to_fil_address(p.address.bytes)
        from == Address_new_delegated(BTC_NAMESPACE, [i \in 1..20 |-> 0])
    IN  IF m.kind.kind = "None"
        THEN anyhow("Field kind not found in result", <<>>)
        ELSE IF m.kind.val # <<"f", "u", "n", "d">>
        THEN anyhow("Unknown kind in result", <<>>)
        ELSE IF m.subnet_id.kind = "None"
        THEN anyhow("Field subnet_id not found in result", <<>>)
        ELSE IF p.target.kind = "Err" THEN p.target
        ELSE IF m.amount.kind = "None"
        THEN anyhow("Field amount not found in result", <<>>)
        ELSE IF m.address.kind = "None"
        THEN anyhow("Field address not found in result", <<>>)
        ELSE IF ~p.address.ok THEN p.address.err
        ELSE IF ~fil.ok THEN anyhow("invalid delegated address", <<>>)
        ELSE IF m.block_hash.kind = "None"
        THEN anyhow("Field block_hash not found in result", <<>>)
        ELSE IF ~p.block_hash.ok THEN p.block_hash.err
        ELSE IF prev_block_hash.kind = "Some"
                /\ prev_block_hash.val # p.block_hash.bytes
        THEN anyhow("Block hash mismatch in result", <<>>)
        ELSE IF m.nonce.kind = "None"
        THEN anyhow("Field nonce not found in result", <<>>)
        ELSE IF ~from.ok THEN anyhow("invalid delegated address", <<>>)
        ELSE [kind |-> "Ok",
              block_hash |-> p.block_hash.bytes,
              envelope |->
                [kind |-> "Transfer",
                 to |-> IPCAddress_new(p.target.val, fil.val),
                 value |-> TokenAmount_from_whole(m.amount.val),
                 from |-> IPCAddress_new(SubnetID_new_root(subnet_id.root),
                                         from.val),
                 message |-> <<>>,
                 nonce |-> m.nonce.val]]

top_down_entry(result, prev_block_hash, subnet_id) ==
    Bind(top_down_members(result), LAMBDA m :
        Bind(top_down_parsed(m), LAMBDA p :
            top_down_checks(m, p, prev_block_hash, subnet_id)))

\* get_block_hash is todo!()
BtcSubnetManager_get_block_hash(height) == Panic

RECURSIVE top_down_loop(_, _, _, _, _)
top_down_loop(results, messages, prev_block_hash, subnet_id, epoch) ==
    IF results = <<>>
    THEN IF prev_block_hash.kind = "Some"
         THEN [kind |-> "Ok",
               payload |-> [value |-> messages,
                            block_hash |-> prev_block_hash.val]]
         ELSE BtcSubnetManager_get_block_hash(epoch)
    ELSE Bind(top_down_entry(results[1], prev_block_hash, subnet_id),
              LAMBDA entry :
                  IF entry.kind # "Ok" THEN entry
                  ELSE top_down_loop(Tail(results),
                                     Append(messages, entry.envelope),
                                     Some(entry.block_hash), subnet_id,
                                     epoch))

BtcSubnetManager_get_top_down_msgs(subnet_id, epoch, response) ==
    LET body ==
            Request("getrootnetmessages",
                    [subnet_id |-> SubnetID_to_string(subnet_id),
                     block_height |-> epoch])
        checked ==
            exchange(response,
                     "getrootnetmessages request failed with status: {}")
        results ==
            Value_as_array(Value_get(Some(response.body), "result"))
    IN  Call(<<body>>,
             IF checked.kind # "Continue" THEN checked
             ELSE IF results.kind = "None"
             THEN anyhow("Field result not found", <<>>)
             ELSE top_down_loop(results.val, <<>>, None, subnet_id, epoch))

(***************************************************************************)
(* Inputs of the manager: parameters of either ecosystem and whatever the  *)
(* backend may answer.                                                     *)
(***************************************************************************)
\* most entries of one array in a backend result
MaxEntries == 2

ManagerSubnets ==
    {SubnetID_new(123, <<Address_new_id(1)>>),
     SubnetID_new_btc(123, <<"2", "e">>).val}

ConstructParamsAtHand ==
    [tag : {"Eth"}, min_validators : {1, 2}]
        \cup [tag : {"Btc"}, min_validator_stake : {1000},
              min_validators : {1, 2}, bottomup_check_period : {10},
              active_validators_limit : {5}, min_cross_msg_fee : {1},
              validator_whitelist : {<<>>}]

JoinParamsAtHand ==
    [tag : {"Eth"}, collateral : {1, 2}]
        \cup [tag : {"Btc"}, subnet_id : ManagerSubnets,
              sender_public_key : {<<"0", "2", "a",
                  "b">>}, collateral : {1000},
              ip : {<<"1", "0", ".", "0", ".", "0", ".",
                  "1">>}, backup_address : {<<"b", "c", "1", "q">>}]

\* destination addresses: not delegated, an EVM address, a delegated
\* address too short to hold one
EvmAddressBytes == [i \in 1..20 |-> 17]
DstAddresses ==
    {Address_new_id(1),
     Address_new_delegated(EAM_NAMESPACE, EvmAddressBytes).val,
     Address_new_delegated(EAM_NAMESPACE, <<46>>).val}

FundParamsAtHand ==
    [tag : {"Eth"}, amount : {1, 2}]
        \cup [tag : {"Btc"}, subnet_id : ManagerSubnets, amount : {1},
              dst_address : DstAddresses]

Epochs == {0, 7}

StatusCodes == {200, 500}

\* members m and, when the option holds one, one more
Members(m, k, o) == IF o.kind = "Some" THEN With(m, k, o.val) ELSE m

CodeMembers ==
    {None, Some(JInt(0 - 32000)), Some(JStr(<<"x">>)),
     Some(JFloat(1, <<"5">>))}
MessageMembers == {None, Some(JStr(<<"b", "o", "o", "m">>)), Some(JInt(7))}
DataMembers == {None, Some(JStr(<<"w", "h",
    "y">>)), Some(JObject([k |-> JInt(1)]))}

ErrorObject(code, message, data) ==
    JObject(Members(Members(Members(<<>>, "code", code), "message", message),
                    "data", data))

\* what the "error" member may hold: an object with any of its three
\* members missing or of another type, null, or a text
ErrorValues ==
    ({ErrorObject(c, m, d) :
        c \in CodeMembers, m \in MessageMembers, d \in DataMembers}
        \ {JObject(<<>>)})
        \cup {JNull, JStr(<<"b", "a", "d">>)}

HashA == <<"1", "1", "1", "1", "1", "1", "1", "1", "1", "1", "1", "1", "1",
    "1", "1", "1", "1", "1", "1", "1", "1", "1", "1", "1", "1", "1", "1",
        "1", "1", "1", "1", "1", "1", "1", "1", "1", "1", "1", "1", "1",
            "1", "1", "1", "1", "1", "1", "1", "1", "1", "1", "1", "1", "1",
                "1", "1", "1", "1", "1", "1", "1", "1", "1", "1", "1">>
HashB == <<"2", "2", "2", "2", "2", "2", "2", "2", "2", "2", "2", "2", "2",
    "2", "2", "2", "2", "2", "2", "2", "2", "2", "2", "2", "2", "2", "2",
        "2", "2", "2", "2", "2", "2", "2", "2", "2", "2", "2", "2", "2",
            "2", "2", "2", "2", "2", "2", "2", "2", "2", "2", "2", "2", "2",
                "2", "2", "2", "2", "2", "2", "2", "2", "2", "2", "2">>
EvmAddressText == <<"0", "x", "1", "1", "1", "1", "1", "1", "1", "1", "1",
    "1", "1", "1", "1", "1", "1", "1", "1", "1", "1", "1", "1", "1", "1",
        "1", "1", "1", "1", "1", "1", "1", "1", "1", "1", "1", "1", "1",
            "1", "1", "1", "1">>

\* the same address with white space before, inside and after it
SpacedAddressText ==
    <<"0", "x", " ">> \o [i \in 1..20 |-> "1"] \o <<"\t", "\n">>
        \o [i \in 1..20 |-> "1"] \o <<"\r">>

\* the EVM form of the actor id 1001: 0xff, eleven zero bytes, the id
MaskedIdText ==
    <<"f", "F">> \o [i \in 1..34 |-> "0"] \o <<"0", "3", "e", "9">>

\* 64 digits and one character more
LongHashText == [i \in 1..64 |-> "1"] \o <<"z">>

\* the hash of HashA with its prefix and white space around its digits
SpacedHashA ==
    <<"0", "x", "\n">> \o [i \in 1..63 |-> "1"] \o <<" ", "1", " ", "\t">>

\* entries of genesis_validators: four that parse (one with white space in
\* its address, one with the address of an actor id), and one each with a
\* malformed address, a missing collateral, a public key with white space
\* and a collateral that is a float
ValidatorEntries ==
    {JObject([subnet_address |-> JStr(EvmAddressText),
              collateral |-> JInt(5), pubkey |-> JStr(<<"a", "b">>)]),
     JObject([subnet_address |-> JStr(SpacedAddressText),
              collateral |-> JInt(6), pubkey |-> JStr(<<"c", "d">>)]),
     JObject([subnet_address |-> JStr(MaskedIdText),
              collateral |-> JInt(7), pubkey |-> JStr(<<"a", "b">>)]),
     JObject([subnet_address |-> JStr(<<"z", "z">>),
              collateral |-> JInt(5), pubkey |-> JStr(<<"a", "b">>)]),
     JObject([subnet_address |-> JStr(EvmAddressText),
              pubkey |-> JStr(<<"a", "b">>)]),
     JObject([subnet_address |-> JStr(EvmAddressText),
              collateral |-> JInt(5), pubkey |-> JStr(<<"a", "b", " ", " ">>)]),
     JObject([subnet_address |-> JStr(EvmAddressText),
              collateral |-> JFloat(5, <<"0">>),
              pubkey |-> JStr(<<"a", "b">>)])}

CreateSubnetMsgs ==
    {JObject([min_validator_stake |-> JInt(1000),
              active_validators_limit |-> JInt(l),
              bottomup_check_period |-> JInt(10)]) : l \in {5, 65536}}
        \cup {JObject([min_validator_stake |-> JInt(1000),
                       bottomup_check_period |-> JInt(10)])}

\* a result that holds what create_subnet, join_subnet, get_genesis_info
\* and genesis_epoch read
ObjectResult(subnet_id, bootstrapped, msg, validators) ==
    JObject(Members(Members(
        [subnet_id |-> subnet_id,
         join_txid |-> JStr(<<"a", "b">>),
         bootstrapped |-> bootstrapped,
         genesis_block_height |-> JInt(7)],
        "create_subnet_msg", msg), "genesis_validators", validators))

GoodResult ==
    ObjectResult(JStr(<<"/", "r", "1", "2", "3", "/", "f", "0",
        "1">>), JBool(TRUE),
                 Some(JObject([min_validator_stake |-> JInt(1000),
                               active_validators_limit |-> JInt(5),
                               bottomup_check_period |-> JInt(10)])),
                 Some(JArr(<<>>)))

\* a result that is well formed but for its genesis_block_height: missing,
\* a text, negative, a float
HeightResult(height) ==
    JObject(Members(
        [bootstrapped |-> JBool(TRUE),
         create_subnet_msg |->
             JObject([min_validator_stake |-> JInt(1000),
                      active_validators_limit |-> JInt(5),
                      bottomup_check_period |-> JInt(10)]),
         genesis_validators |-> JArr(<<>>)],
        "genesis_block_height", height))

HeightResults ==
    {HeightResult(h) :
        h \in {None, Some(JStr(<<"7">>)), Some(JInt(0 - 1)),
               Some(JFloat(7, <<"0">>))}}

ObjectResults ==
    {ObjectResult(s, b, m, v) :
        s \in {JStr(<<"/", "r", "1", "2", "3", "/", "f", "0",
            "1">>), JStr(<<"/", "r", "1", "2", "3">>), JStr(<<"/",
                "x">>), JInt(5)},
        b \in {JBool(TRUE)},
        m \in {Some(x) : x \in CreateSubnetMsgs},
        v \in {Some(JArr(<<>>))}}
    \cup
    {ObjectResult(JStr(<<"/", "r", "1", "2", "3", "/", "f", "0",
        "1">>), b, m, v) :
        b \in {JBool(TRUE), JBool(FALSE), JInt(1)},
        m \in {None} \cup {Some(x) : x \in CreateSubnetMsgs},
        v \in {None, Some(JNull)}
              \cup {Some(JArr(a)) :
                        a \in SeqsUpTo(ValidatorEntries, MaxEntries)}}
    \cup
    {JObject([join_txid |-> JInt(1)]), JObject([bootstrapped |-> JBool(TRUE)])}
    \cup HeightResults

AddressedEntry(kind, subnet_id, amount, address, block_hash, nonce) ==
    JObject(Members(Members(
        [msg |-> JObject([subnet_id |-> JStr(subnet_id),
                          amount |-> JInt(amount),
                          address |-> JStr(address)]),
         block_hash |-> JStr(block_hash)],
        "kind", kind), "nonce", nonce))

TopDownEntry(kind, subnet_id, amount, block_hash, nonce) ==
    AddressedEntry(kind, subnet_id, amount, EvmAddressText, block_hash,
                   nonce)

FundKind == Some(JStr(<<"f", "u", "n", "d">>))
GoodSubnetText == <<"/", "r", "1", "2", "3", "/", "f", "0", "1">>

\* entries of a getrootnetmessages result: kinds present, unknown and
\* missing; amounts of either sign; two block hashes; nonces present,
\* different, missing and negative; two destination subnets; destination
\* addresses that are delegated, of an actor id, written with white space
\* and malformed; block hashes written with white space, malformed and too
\* long; a malformed subnet id
TopDownEntries ==
    {TopDownEntry(k, GoodSubnetText, 5, HashA, Some(JInt(3))) :
        k \in {None, FundKind, Some(JStr(<<"r", "e", "l", "e", "a", "s", "e">>))}}
    \cup {TopDownEntry(FundKind, GoodSubnetText, 5, HashA, n) :
             n \in {None, Some(JInt(4)), Some(JInt(0 - 1))}}
    \cup {TopDownEntry(FundKind, GoodSubnetText, 0 - 5, HashA,
                        Some(JInt(3))),
          TopDownEntry(FundKind, GoodSubnetText, 5, HashB, Some(JInt(3))),
          TopDownEntry(FundKind, <<"/", "r", "1", "2", "3">>, 7, HashA,
                       Some(JInt(9))),
          TopDownEntry(FundKind, <<"/", "x">>, 5, HashA, Some(JInt(3))),
          TopDownEntry(FundKind, GoodSubnetText, 5, <<"z", "z">>,
                       Some(JInt(3))),
          TopDownEntry(FundKind, GoodSubnetText, 5, LongHashText,
                       Some(JInt(3))),
          AddressedEntry(FundKind, GoodSubnetText, 5, MaskedIdText,
                         SpacedHashA, Some(JInt(8))),
          AddressedEntry(FundKind, GoodSubnetText, 5, SpacedAddressText,
                         HashA, Some(JInt(3))),
          AddressedEntry(FundKind, GoodSubnetText, 5, <<"z", "z">>, HashA,
                         Some(JInt(3)))}

GoodArray ==
    JArr(<<TopDownEntry(FundKind, GoodSubnetText, 5, HashA, Some(JInt(3)))>>)

ResultValues ==
    ObjectResults
        \cup {JArr(a) : a \in SeqsUpTo(TopDownEntries, MaxEntries)}
        \cup {JNull, JStr(<<"o", "k">>)}

Body(error, result) ==
    JObject(Members(Members([jsonrpc |-> JStr(<<"2", ".",
        "0">>), id |-> JInt(1)],
                            "error", error),
                    "result", result))

Bodies ==
    {Body(Some(e), r) :
        e \in ErrorValues, r \in {None, Some(GoodResult), Some(GoodArray)}}
        \cup {Body(None, r) : r \in {None} \cup {Some(x) : x \in ResultValues}}
        \cup {NotJson, JArr(<<>>)}

Responses ==
    {Answer(s, b) : s \in StatusCodes, b \in Bodies}
        \cup {Answer(404, NotJson), TransportFailure}

\* The manager keeps nothing between calls: every parameter is explored
\* for the first call, later calls have one of each.
FirstManagerCall == op = "new"

AtHand(inputs, later) == IF FirstManagerCall THEN inputs ELSE {later}

GoodResponse == Answer(200, Body(None, Some(GoodResult)))
LaterEth == [tag |-> "Eth", min_validators |-> 1]
LaterJoin == [tag |-> "Eth", collateral |-> 1]
LaterFund == [tag |-> "Eth", amount |-> 1]
LaterSubnet == SubnetID_new(123, <<Address_new_id(1)>>)

(***************************************************************************)
(* The manager as a state machine.  Every operation is an async fn that    *)
(* runs to its first await, client.post(..).send(), is resumed when the    *)
(* backend's answer arrives and, on a success status, waits once more for  *)
(* the body at resp.json().  The manager holds only its client and its     *)
(* rpc_url, so calls on one manager run side by side: `other` is the calls *)
(* in flight, each with the requests it has posted, the await it is        *)
(* suspended at and, while it waits for the body, the answer under way.    *)
(* op, arg, out and cur describe the last step of a call: a call that      *)
(* returned (its name, its parameters and the answer it got, what it       *)
(* returned, the requests it posted), or a call that was polled and stays  *)
(* pending.                                                                *)
(***************************************************************************)
MaxInFlight == 2      \* calls in flight on the manager at one time

Pending == [kind |-> "Pending"]
NoAnswerYet == [transport |-> "none", status |-> 0, body |-> NotJson]

\* the answers explored for a call that shares the manager with another
LaterResponses == {GoodResponse, TransportFailure}

\* what the named operation does with its parameters and the answer
ManagerCall(name, a, response) ==
    CASE name = "create_subnet" ->
             BtcSubnetManager_create_subnet(a.params, response)
      [] name = "join_subnet" ->
             BtcSubnetManager_join_subnet(a.params, response)
      [] name = "pre_fund" -> BtcSubnetManager_pre_fund(a.params, response)
      [] name = "fund" -> BtcSubnetManager_fund(a.params, response)
      [] name = "get_genesis_info" ->
             BtcSubnetManager_get_genesis_info(a.subnet_id, response)
      [] name = "genesis_epoch" ->
             BtcSubnetManager_genesis_epoch(a.subnet_id, response)
      [] name = "get_top_down_msgs" ->
             BtcSubnetManager_get_top_down_msgs(a.subnet_id, a.epoch,
                                                response)

Without(calls, i) == SubSeq(calls, 1, i - 1) \o SubSeq(calls, i + 1, Len(calls))

\* the call is Ready: it returns to its caller and leaves the calls in
\* flight
Returns(name, a, response, rest) ==
    \E call \in {ManagerCall(name, a, response)} :
        /\ op' = name
        /\ arg' = With(a, "response", response)
        /\ cur' = call.sent
        /\ out' = call.result
        /\ other' = rest

\* the call was polled and is suspended again
StaysPending(call, calls) ==
    /\ op' = "poll"
    /\ arg' = call
    /\ cur' = call.sent
    /\ out' = Pending
    /\ other' = calls

\* BtcSubnetManager::new on a Btc subnet configuration
ManagerInit ==
    /\ cur = <<>>
    /\ other = <<>>
    /\ op = "new"
    /\ arg = [config |-> "Btc"]
    /\ out = [kind |-> "Ok", unit |-> TRUE]

\* the first poll of a call: the code up to send().await.  What it posts
\* does not depend on the answer: it is what the call has posted when the
\* send fails.  A call that posts nothing returns at once.  A call begins
\* beside calls whose answer is still out or is one of LaterResponses.
Begin(name, a) ==
    /\ Len(other) < MaxInFlight
    /\ \A i \in 1..Len(other) :
           other[i].response \in LaterResponses \cup {NoAnswerYet}
    /\ \E first \in {ManagerCall(name, a, TransportFailure)} :
           IF first.sent = <<>>
           THEN /\ op' = name
                /\ arg' = a
                /\ cur' = <<>>
                /\ out' = first.result
                /\ UNCHANGED other
           ELSE \E call \in {[name |-> name, a |-> a, sent |-> first.sent,
                              at |-> "send", response |-> NoAnswerYet]} :
                    StaysPending(call, Append(other, call))

CreateSubnet ==
    \E params \in AtHand(ConstructParamsAtHand, LaterEth) :
        Begin("create_subnet", [params |-> params])

JoinSubnet ==
    \E params \in AtHand(JoinParamsAtHand, LaterJoin) :
        Begin("join_subnet", [params |-> params])

PreFund ==
    \E params \in AtHand(FundParamsAtHand, LaterFund) :
        Begin("pre_fund", [params |-> params])

Fund ==
    \E params \in AtHand(FundParamsAtHand, LaterFund) :
        Begin("fund", [params |-> params])

GetGenesisInfo ==
    \E subnet_id \in AtHand(ManagerSubnets, LaterSubnet) :
        Begin("get_genesis_info", [subnet_id |-> subnet_id])

GenesisEpoch ==
    \E subnet_id \in AtHand(ManagerSubnets, LaterSubnet) :
        Begin("genesis_epoch", [subnet_id |-> subnet_id])

GetTopDownMsgs ==
    \E subnet_id \in AtHand(ManagerSubnets, LaterSubnet),
       epoch \in AtHand(Epochs, 0) :
        Begin("get_top_down_msgs", [subnet_id |-> subnet_id, epoch |-> epoch])

\* send().await is over for one of the calls in flight: the send failed or
\* the status is no success and the call returns, or the call goes on to
\* wait for the body.  Every answer is explored for a call that has the
\* manager to itself.
Respond ==
    \E i \in 1..Len(other) :
        /\ other[i].at = "send"
        /\ \E response \in (IF Len(other) = 1 THEN Responses
                            ELSE LaterResponses) :
               IF response.transport = "failed"
                  \/ ~is_success(response.status)
               THEN Returns(other[i].name, other[i].a, response,
                            Without(other, i))
               ELSE \E call \in {[other[i] EXCEPT !.at = "json",
                                                 !.response = response]} :
                        StaysPending(call, [other EXCEPT ![i] = call])

\* resp.json().await is over for one of the calls in flight: the call reads
\* the body and returns
ReadBody ==
    \E i \in 1..Len(other) :
        /\ other[i].at = "json"
        /\ Returns(other[i].name, other[i].a, other[i].response,
                   Without(other, i))

ManagerNext ==
    \/ CreateSubnet
    \/ JoinSubnet
    \/ PreFund
    \/ Fund
    \/ GetGenesisInfo
    \/ GenesisEpoch
    \/ GetTopDownMsgs
    \/ Respond
    \/ ReadBody

ManagerSpec == ManagerInit /\ [][ManagerNext]_vars

(***************************************************************************)
(* Properties.                                                             *)
(***************************************************************************)
Truncate(id, k) ==
    [root_network_type |-> id.root_network_type,
     root |-> id.root,
     children |-> SubSeq(id.children, 1, k)]

Min(a, b) == IF a <= b THEN a ELSE b

\* length of the longest common prefix of two sequences
CommonPrefixLen(xs, ys) ==
    CHOOSE k \in 0..Min(Len(xs), Len(ys)) :
        /\ SubSeq(xs, 1, k) = SubSeq(ys, 1, k)
        /\ (k < Min(Len(xs), Len(ys)) => xs[k + 1] # ys[k + 1])

Constructed == {"new", "new_root", "new_btc", "new_from_parent", "from_str"}

\* C1: every SubnetID returned by new, new_root, new_btc, new_from_parent or
\* from_str is parsed back from its string form to an equal value.
C1_RoundTrip ==
    (op \in Constructed /\ out.kind = "Ok")
        => SubnetID_from_str(SubnetID_to_string(out.val)) = Ok(out.val)

\* C1, leaving out the UTXO root 0 that new_btc lets through: the round trip
\* holds for every other constructed value.
C1_RoundTripNonZeroBtc ==
    (/\ op \in Constructed
     /\ out.kind = "Ok"
     /\ ~(out.val.root_network_type = "Btc" /\ out.val.root = 0))
        => SubnetID_from_str(SubnetID_to_string(out.val)) = Ok(out.val)

NoChar(t, c) == \A i \in 1..Len(t) : t[i] # c

\* no part of a universal id contains a separator of the string form
Separable(u) ==
    /\ NoChar(u.root.namespace, "/") /\ NoChar(u.root.namespace, ":")
    /\ NoChar(u.root.reference, "/") /\ NoChar(u.root.reference, ":")
    /\ \A i \in 1..Len(u.children) : NoChar(u.children[i], "/")

UniversalConstructed ==
    {"universal_new", "universal_new_root", "universal_new_from_parent",
     "from_subnet_id", "universal_from_str"}

UniversalRoundTrips(u) ==
    UniversalSubnetId_from_str(UniversalSubnetId_to_string(u)) = Ok(u)

\* C2: every UniversalSubnetId returned by new, new_root, new_from_parent,
\* from_subnet_id or from_str, whatever text its parts are, is parsed back
\* from its string form to an equal value.
C2_UniversalRoundTrip ==
    (op \in UniversalConstructed /\ out.kind = "Ok")
        => UniversalRoundTrips(out.val)

\* C2 (amended): the round trip holds for every constructed value whose
\* namespace and reference contain neither '/' nor ':' and whose children
\* contain no '/'; from_str and from_subnet_id return only such values.
C2_UniversalRoundTripSeparable ==
    (op \in UniversalConstructed /\ out.kind = "Ok")
        => /\ Separable(out.val) => UniversalRoundTrips(out.val)
           /\ op \in {"universal_from_str", "from_subnet_id"}
                  => Separable(out.val)

C2_Witness ==
    /\ op = "universal_new_from_parent"
    /\ out.val.root.namespace = BIP122
    /\ Len(out.val.children) = 2
    /\ Separable(out.val)
    /\ UniversalRoundTrips(out.val)

\* a UTXO root is not 0
ValidRoot(id) == id.root_network_type = "Btc" => id.root # 0

\* C3: from_subnet_id(id).to_subnet_id() is Ok(id) for every SubnetID id
\* (of a valid root), whatever its root network type.
C3_ConversionLossless ==
    (op = "from_subnet_id" /\ ValidRoot(arg.subnet_id))
        => UniversalSubnetId_to_subnet_id(out.val) = Ok(arg.subnet_id)

\* C3 (amended): from_subnet_id(id) is in the eip155 namespace and
\* from_subnet_id(id).to_subnet_id() is Ok of id with the Fevm root network
\* type: equal to id when id is Fevm-rooted, and never for a Btc-rooted id.
C3_ConversionKeepsRootAndChildren ==
    op = "from_subnet_id"
        => /\ out.val.root.namespace = EIP155
           /\ UniversalSubnetId_to_subnet_id(out.val)
                  = Ok([arg.subnet_id EXCEPT !.root_network_type = "Fevm"])

C3_Witness ==
    /\ op = "from_subnet_id"
    /\ arg.subnet_id.root_network_type = "Fevm"
    /\ arg.subnet_id.root = 123
    /\ Len(arg.subnet_id.children) >= 2
    /\ UniversalSubnetId_to_subnet_id(out.val) = Ok(arg.subnet_id)

\* text that str::parse::<u64> accepts
IsU64Text(t) ==
    LET d == IF t # <<>> /\ t[1] = "+" THEN Tail(t) ELSE t
    IN  /\ d # <<>>
        /\ \A i \in 1..Len(d) : IsDigit(d[i])
        /\ ~PosOverflow(d)

AllChildrenParse(u) ==
    \A i \in 1..Len(u.children) : Address_from_str(u.children[i]).ok

OnlyEip155 == "only eip155 namespace can be converted to SubnetID"

\* C4: to_subnet_id succeeds iff the namespace is eip155 and every child
\* parses as an address; a bip122 id fails with the eip155-only message.
C4_ConvertibleIff ==
    op = "to_subnet_id"
        => /\ (out.kind = "Ok")
                  <=> (/\ arg.self.root.namespace = EIP155
                       /\ AllChildrenParse(arg.self))
           /\ arg.self.root.namespace = BIP122
                  => out.kind = "Err" /\ out.msg.text = OnlyEip155

\* C4 (amended): to_subnet_id succeeds iff the namespace is eip155, the
\* reference parses as a u64 and every child parses as an address; a bip122
\* id fails with the eip155-only message.
C4_ConvertibleIffReference ==
    op = "to_subnet_id"
        => /\ (out.kind = "Ok")
                  <=> (/\ arg.self.root.namespace = EIP155
                       /\ IsU64Text(arg.self.root.reference)
                       /\ AllChildrenParse(arg.self))
           /\ arg.self.root.namespace = BIP122
                  => out.kind = "Err" /\ out.msg.text = OnlyEip155

C4_Witness ==
    /\ op = "to_subnet_id"
    /\ out.kind = "Ok"
    /\ Len(arg.self.children) = 2
    /\ arg.self.root.reference = <<"0", "1">>

\* C5: common_parent is None exactly when the roots differ; otherwise it is
\* Some((k, p)) with k the length of the longest common prefix of the
\* children and p = self cut to k children; a.common_parent(a) = (len, a).
C5_CommonParent ==
    op = "common_parent"
        => LET a == arg.self
               b == arg.other
               k == CommonPrefixLen(a.children, b.children)
           IN  /\ (out.kind = "None") <=> (a.root # b.root)
               /\ a.root = b.root
                      => /\ out.kind = "Some"
                         /\ out.k = k
                         /\ out.val = Truncate(a, k)
               /\ a = b => out.k = Len(a.children) /\ out.val = a

C5_Witness ==
    /\ op = "common_parent"
    /\ out.kind = "Some"
    /\ out.k >= 1
    /\ out.k < Len(arg.self.children)
    /\ out.k < Len(arg.other.children)

\* C6: for SubnetIDs a and b (of valid roots), a.common_parent(b) and
\* b.common_parent(a) are both None, or both Some with the same k and equal
\* prefixes (root network type, root, children).
C6_CommonParentSymmetric ==
    (op = "common_parent" /\ ValidRoot(arg.self) /\ ValidRoot(arg.other))
        => out = SubnetID_common_parent(arg.other, arg.self)

\* C7: up() on ids of one root, with self at least as deep as from and no
\* common child, reports a failure and does not panic.
C7_UpNeverFaults ==
    (/\ op = "up"
     /\ arg.self.root = arg.other.root
     /\ Len(arg.self.children) >= Len(arg.other.children)
     /\ CommonPrefixLen(arg.self.children, arg.other.children) = 0)
        => out.kind \in {"None", "Err"}

\* C8: a.down(b) is Some exactly when a is strictly deeper than b and the
\* roots are equal, and then it is a cut to common_len + 1 children;
\* otherwise it is None.
C8_Down ==
    op = "down"
        => LET a == arg.self
               b == arg.other
               k == CommonPrefixLen(a.children, b.children)
           IN  /\ (out.kind = "Some")
                      <=> (/\ Len(a.children) > Len(b.children)
                           /\ a.root = b.root)
               /\ out.kind = "Some" => out.val = Truncate(a, k + 1)
               /\ out.kind # "Some" => out = None

C8_Witness ==
    /\ op = "down"
    /\ out.kind = "Some"
    /\ Len(arg.other.children) = 1
    /\ Len(arg.self.children) = 3
    /\ Len(out.val.children) = 2

\* C9: a.up(b) is None when a is shallower than b or the roots differ; when
\* a is at least as deep as b, the roots are equal and common_len >= 1, it
\* is a cut to common_len - 1 children; a.up(a) is the parent of a.
C9_Up ==
    op = "up"
        => LET a == arg.self
               b == arg.other
               k == CommonPrefixLen(a.children, b.children)
           IN  /\ (Len(a.children) < Len(b.children) \/ a.root # b.root)
                      => out = None
               /\ (/\ Len(a.children) >= Len(b.children)
                   /\ a.root = b.root
                   /\ k >= 1)
                      => out = Some(Truncate(a, k - 1))
               /\ (a = b /\ a.children # <<>>) => out = SubnetID_parent(a)

C9_Witness ==
    /\ op = "up"
    /\ out.kind = "Some"
    /\ Len(arg.self.children) = 3
    /\ Len(arg.other.children) = 2
    /\ Len(out.val.children) = 1

\* position of the first '/' of a text, or one past its end
FirstSlash(t) ==
    IF NoChar(t, "/") THEN Len(t) + 1
    ELSE CHOOSE i \in 1..Len(t) : t[i] = "/" /\ \A j \in 1..(i - 1) : t[j] # "/"

\* a text that is a run of "/"<segment>: its segments, in order
RECURSIVE SegmentsOf(_)
SegmentsOf(t) ==
    IF t = <<>> THEN <<>>
    ELSE LET rest == Tail(t)
             c == FirstSlash(rest)
         IN  <<SubSeq(rest, 1, c - 1)>>
                 \o SegmentsOf(SubSeq(rest, c, Len(rest)))

RootNumeral(s) ==
    LET rest == SubSeq(s, 3, Len(s)) IN SubSeq(rest, 1, FirstSlash(rest) - 1)

ChildSegments(s) ==
    LET rest == SubSeq(s, 3, Len(s))
    IN  SegmentsOf(SubSeq(rest, FirstSlash(rest), Len(rest)))

NonZeroNumeral(t) == \E i \in 1..Len(t) : t[i] \notin {"0", "+"}

\* "/r"<u64> or "/b"<u64>
RootFormed(s) ==
    /\ Len(s) >= 2
    /\ s[1] = "/"
    /\ s[2] \in {"r", "b"}
    /\ IsU64Text(RootNumeral(s))

\* "/r"<u64> or "/b"<non-zero u64>, then "/"<valid address> segments
SubnetTextFormed(s) ==
    /\ RootFormed(s)
    /\ s[2] = "b" => NonZeroNumeral(RootNumeral(s))
    /\ \A i \in 1..Len(ChildSegments(s)) :
           Address_from_str(ChildSegments(s)[i]).ok

FirstBadSegment(s) ==
    LET segs == ChildSegments(s)
        i == CHOOSE k \in 1..Len(segs) :
                 /\ ~Address_from_str(segs[k]).ok
                 /\ \A j \in 1..(k - 1) : Address_from_str(segs[j]).ok
    IN  segs[i]

\* C10: from_str accepts exactly "/r"<u64> or "/b"<non-zero u64> followed by
\* "/"<valid address> segments, with the Fevm type for "/r" and the Btc type
\* for "/b"; every other text is rejected with an InvalidID carrying the raw
\* text, and when the root is accepted a child segment that fails address
\* parsing is reported as "invalid child address" naming the first such
\* segment.
C10_ParseAcceptance ==
    op = "from_str"
        => LET s == arg.id
           IN  /\ (out.kind = "Ok") <=> SubnetTextFormed(s)
               /\ out.kind = "Ok"
                      => /\ out.val.root_network_type
                                = (IF s[2] = "r" THEN "Fevm" ELSE "Btc")
                         /\ Len(out.val.children) = Len(ChildSegments(s))
               /\ out.kind # "Ok" => out.kind = "Err" /\ out.raw = s
               /\ (/\ RootFormed(s)
                   /\ s[2] = "b" => NonZeroNumeral(RootNumeral(s))
                   /\ ~SubnetTextFormed(s))
                      => /\ out.msg.text = "invalid child address"
                         /\ out.msg.segment = FirstBadSegment(s)

C10_Witness ==
    /\ op = "from_str"
    /\ arg.id = <<"/", "b", "1", "/", "f", "0", "1", "/", "t", "0", "1">>
    /\ out.kind = "Err"
    /\ out.msg.text = "invalid child address"
    /\ out.msg.segment = <<"t", "0", "1">>
    /\ out.msg.cause.name = "UnknownNetwork"

\* C11: every text that SubnetID::from_str accepts is the string form of the
\* value it returns: to_string(from_str(s)) = s.
C11_ParseInverse ==
    (op = "from_str" /\ out.kind = "Ok")
        => SubnetID_to_string(out.val) = arg.id

SubnetReturning ==
    {"new", "new_root", "new_btc", "new_from_parent", "from_str",
     "parent", "common_parent", "down", "up"}

\* C12: no SubnetID returned by new, new_root, new_btc, new_from_parent,
\* from_str, parent, common_parent, down or up has the Btc root network type
\* together with root 0.
C12_NoZeroBtcRoot ==
    (op \in SubnetReturning /\ out.kind \in {"Ok", "Some"})
        => ~(out.val.root_network_type = "Btc" /\ out.val.root = 0)

\* C13: chain_id of a root subnet is its root value; chain_id of any other
\* subnet is the FNV hash of its string form modulo MAX_CHAIN_ID, hence
\* below MAX_CHAIN_ID and determined by the string form, and it is the value
\* of the repository's test for "/r123/f01001".
C13_ChainId ==
    op = "chain_id"
        => LET id == arg.self
               text == SubnetID_to_string(id)
               hash == FnvHasher_write(FnvHasher_default, as_bytes(text))
           IN  /\ id.children = <<>> => out.u64 = U64_from(id.root)
               /\ id.children # <<>>
                      => /\ out.u64 = U64_rem(hash, MAX_CHAIN_ID)
                         /\ ~U64_geq(out.u64, MAX_CHAIN_ID)
               /\ id = SubnetID_new(123, <<Address_new_id(1001)>>)
                      => out.u64 = U64_literal(
                             <<"1", "0", "1", "1", "8", "7", "3", "2",
                               "9", "4", "9", "1", "3", "6", "1", "3">>)

C13_Witness ==
    /\ op = "chain_id"
    /\ arg.self = SubnetID_new(123, <<Address_new_id(1001)>>)
    /\ out.u64 = U64_literal(<<"1", "0", "1", "1", "8", "7", "3", "2",
                               "9", "4", "9", "1", "3", "6", "1", "3">>)

\* the first child of a universal id that is not an address
FirstBadChild(u) ==
    u.children[CHOOSE k \in 1..Len(u.children) :
                   /\ ~Address_from_str(u.children[k]).ok
                   /\ \A j \in 1..(k - 1) : Address_from_str(u.children[j]).ok]

\* C14: a failing to_subnet_id names the first invalid field, in the order
\* namespace, reference, children in path order; the failure is an
\* InvalidID carrying the string form of the id, and the caller is left
\* with the universal id, not with a SubnetID.
C14_ConversionFailure ==
    op = "to_subnet_id"
        => LET u == arg.self
               nsOk == u.root.namespace = EIP155
               refOk == IsU64Text(u.root.reference)
           IN  /\ ~nsOk => out.kind = "Err" /\ out.msg = Reason(OnlyEip155)
               /\ (nsOk /\ ~refOk)
                      => /\ out.kind = "Err"
                         /\ out.msg = Reason(
                                "root chain ID reference cannot be converted to u64")
               /\ (nsOk /\ refOk /\ ~AllChildrenParse(u))
                      => /\ out.kind = "Err"
                         /\ out.msg.text = "invalid child address"
                         /\ out.msg.segment = FirstBadChild(u)
               /\ out.kind = "Err"
                      => /\ out.raw = UniversalSubnetId_to_string(u)
                         /\ cur = Uid(u)

C14_Witness ==
    /\ op = "to_subnet_id"
    /\ arg.self.root.namespace = EIP155
    /\ arg.self.children = <<<<"t", "0", "1">>, <<>>>>
    /\ out.kind = "Err"
    /\ out.msg.segment = <<"t", "0", "1">>
    /\ cur = Uid(arg.self)

\* number of ':' in a text
Colons(t) == Cardinality({i \in 1..Len(t) : t[i] = ":"})

\* position of the first ':' of a text that has one
FirstColon(t) ==
    CHOOSE i \in 1..Len(t) : t[i] = ":" /\ \A j \in 1..(i - 1) : t[j] # ":"

\* C15: UniversalSubnetId::from_str succeeds exactly when the text starts
\* with "/" and its first "/"-separated segment has exactly one ":"; the
\* namespace and the reference are the parts of that segment and the other
\* segments are the children, verbatim and in order; every other text is
\* rejected with an InvalidID carrying the text.
C15_UniversalParseAcceptance ==
    op = "universal_from_str"
        => LET s == arg.s
               slash == s # <<>> /\ s[1] = "/"
               first == SegmentsOf(s)[1]
           IN  /\ (out.kind = "Ok") <=> (slash /\ Colons(first) = 1)
               /\ out.kind = "Ok"
                      => /\ out.val.root.namespace
                                = SubSeq(first, 1, FirstColon(first) - 1)
                         /\ out.val.root.reference
                                = SubSeq(first, FirstColon(first) + 1,
                                         Len(first))
                         /\ out.val.children = Tail(SegmentsOf(s))
               /\ out.kind # "Ok" => out.kind = "Err" /\ out.raw = s
               /\ ~slash => out.msg = Reason("expected to start with '/'")
               /\ (slash /\ Colons(first) # 1)
                      => out.msg = Reason(
                          "invalid chain ID format, expected namespace:reference")

C15_Witness ==
    /\ op = "universal_from_str"
    /\ arg.s = <<"/", "e", "i", "p", "1", "5", "5", ":", "1",
                 "/", "f", "0", "1", "/", "a", ":", "b">>
    /\ out.kind = "Ok"
    /\ out.val.children = <<<<"f", "0", "1">>, <<"a", ":", "b">>>>

\* C16: the serialized form of a UniversalSubnetId that from_str can return
\* has the root as the one string "namespace:reference", and deserializing
\* it gives back the id.
C16_SerdeRoundTrip ==
    (op = "serialize" /\ UniversalRoundTrips(arg.self))
        => /\ out.ser.root
                  = arg.self.root.namespace \o <<":">>
                        \o arg.self.root.reference
           /\ UniversalSubnetId_deserialize(out.ser) = Ok(arg.self)

\* C17: root_network_type is Some(Fevm) exactly for the namespace eip155,
\* Some(Btc) exactly for bip122 and None for every other namespace, whatever
\* the reference and the children are; it never fails.
C17_RootNetworkType ==
    op = "universal_root_network_type"
        => LET ns == arg.self.root.namespace
           IN  /\ (out = Some("Fevm")) <=> (ns = EIP155)
               /\ (out = Some("Btc")) <=> (ns = BIP122)
               /\ (out = None) <=> (ns \notin {EIP155, BIP122})
               /\ out.kind \in {"Some", "None"}

C17_Witness ==
    /\ op = "universal_root_network_type"
    /\ arg.self.root.namespace = <<"x">>
    /\ arg.self.root.reference = <<"1", "2", "3">>
    /\ Len(arg.self.children) = 2
    /\ out = None

(***************************************************************************)
(* Properties of the manager (checked under ManagerSpec).                  *)
(***************************************************************************)
TaggedOps == {"create_subnet", "join_subnet", "pre_fund", "fund"}

RpcOps ==
    TaggedOps \cup {"get_genesis_info", "genesis_epoch", "get_top_down_msgs"}

\* C18: create_subnet, join_subnet, pre_fund and fund, given the Eth variant
\* of their parameters, return the "Unsupported subnet configuration" error
\* and the backend receives no request, whatever the fields of the
\* parameters and whatever the backend would have answered.
C18_MismatchedTag ==
    (op \in TaggedOps /\ arg.params.tag = "Eth")
        => /\ out = [kind |-> "Err",
                     fmt |-> "Unsupported subnet configuration",
                     args |-> <<>>]
           /\ cur = <<>>

\* create_subnet was given Eth parameters: it returned the error from its
\* first poll and posted nothing
C18_Witness ==
    /\ op = "create_subnet"
    /\ arg.params.tag = "Eth"
    /\ arg.params.min_validators = 2
    /\ cur = <<>>
    /\ out.kind = "Err"

\* join_subnet was given Eth parameters while the request of another call
\* was outstanding
C18_WitnessBeside ==
    /\ op = "join_subnet"
    /\ arg.params.tag = "Eth"
    /\ cur = <<>>
    /\ out.kind = "Err"
    /\ other # <<>>

\* the call posted a request and the backend answered it
Answered == op \in RpcOps /\ cur # <<>> /\ arg.response.transport = "ok"

\* the answer's body holds an "error" member that is an object
HasErrorObject(body) ==
    /\ body.t = "object"
    /\ "error" \in DOMAIN body.m
    /\ body.m.error.t = "object"

HasResult(body) == body.t = "object" /\ "result" \in DOMAIN body.m

StatusFailures ==
    {"Create Subnet request failed with status: {}",
     "Join Subnet request failed with status: {}",
     "Pre-fund request failed with status: {}",
     "Fund request failed with status: {}",
     "btc getgenesisinfo request failed with status: {}",
     "getrootnetmessages request failed with status: {}"}

RpcErrorFormat == "JSON-RPC error: code={}, message={}, details={}"

\* C19: in each of the seven operations, a status outside 200..299 fails
\* the call with the status error whatever the body holds; with a success
\* status, a body with an error object fails the call with the JSON-RPC
\* error even when a result is present; and a call succeeds only on a
\* success status and a body without an error object.
C19_FailureOrder ==
    Answered =>
        /\ ~is_success(arg.response.status)
             => /\ out.kind = "Err"
                /\ out.fmt \in StatusFailures
                /\ out.args = <<status_to_string(arg.response.status)>>
        /\ (is_success(arg.response.status)
              /\ HasErrorObject(arg.response.body))
             => /\ out.kind = "Err"
                /\ out.fmt = RpcErrorFormat
        /\ out.kind = "Ok"
             => /\ is_success(arg.response.status)
                /\ ~HasErrorObject(arg.response.body)

\* create_subnet met a success status and a body with both an error object
\* and a result it could have used, and returned the JSON-RPC error
C19_Witness ==
    /\ op = "create_subnet"
    /\ Answered
    /\ arg.response.status = 200
    /\ HasErrorObject(arg.response.body)
    /\ HasResult(arg.response.body)
    /\ arg.response.body.m.result = GoodResult
    /\ out.kind = "Err"
    /\ out.fmt = RpcErrorFormat

\* the call returned the JSON-RPC error for an error object
RpcErrorReturned ==
    /\ Answered
    /\ HasErrorObject(arg.response.body)
    /\ out.kind = "Err"
    /\ out.fmt = RpcErrorFormat

\* C20: the JSON-RPC error returned for an error object carries the
\* object's code, message and data: each value that can be read is carried
\* as it is, and a value of the error is 0, "Unknown error" or empty only
\* when the object's member is.
C20_ErrorVerbatim ==
    RpcErrorReturned =>
        LET members == arg.response.body.m.error.m
        IN  /\ "code" \in DOMAIN members
            /\ "message" \in DOMAIN members
            /\ "data" \in DOMAIN members
            /\ members.code.t = "number"
                 => out.args[1] = i64_to_string(members.code.i)
            /\ members.message.t = "string"
                 => out.args[2] = members.message.s
            /\ members.data.t = "string"
                 => out.args[3] = members.data.s
            /\ out.args[1] = <<"0">> => members.code = JInt(0)
            /\ out.args[2] = <<"U", "n", "k", "n", "o", "w", "n", " ", "e",
                "r", "r", "o", "r">>
                 => members.message = JStr(<<"U", "n", "k", "n", "o", "w",
                     "n", " ", "e", "r", "r", "o", "r">>)
            /\ out.args[3] = <<>> => members.data = JStr(<<>>)

\* the object holds the member and the member is of the JSON type
HasTyped(object, key, type) ==
    /\ object.t = "object"
    /\ key \in DOMAIN object.m
    /\ object.m[key].t = type

\* an entry of a getrootnetmessages result holds every member that is read,
\* each of its JSON type
EntryShaped(entry) ==
    /\ HasTyped(entry, "kind", "string")
    /\ HasTyped(entry, "msg", "object")
    /\ HasTyped(entry.m.msg, "subnet_id", "string")
    /\ HasTyped(entry.m.msg, "amount", "number")
    /\ HasTyped(entry.m.msg, "address", "string")
    /\ HasTyped(entry, "block_hash", "string")
    /\ HasTyped(entry, "nonce", "number")

\* the result holds every member the operation reads, each of its JSON type
ResultShaped(operation, body) ==
    CASE operation = "create_subnet" ->
             /\ HasTyped(body, "result", "object")
             /\ HasTyped(body.m.result, "subnet_id", "string")
      [] operation = "join_subnet" ->
             /\ HasTyped(body, "result", "object")
             /\ HasTyped(body.m.result, "join_txid", "string")
      [] operation = "get_genesis_info" ->
             /\ HasTyped(body, "result", "object")
             /\ HasTyped(body.m.result, "bootstrapped", "bool")
             /\ HasTyped(body.m.result, "create_subnet_msg", "object")
             /\ \A key \in {"min_validator_stake", "active_validators_limit",
                            "bottomup_check_period"} :
                    HasTyped(body.m.result.m.create_subnet_msg, key, "number")
             /\ HasTyped(body.m.result, "genesis_validators", "array")
             /\ HasTyped(body.m.result, "genesis_block_height", "number")
      [] operation = "genesis_epoch" ->
             /\ HasTyped(body, "result", "object")
             /\ HasTyped(body.m.result, "genesis_block_height", "number")
      [] operation = "get_top_down_msgs" ->
             /\ HasTyped(body, "result", "array")
             /\ \A i \in 1..Len(body.m.result.a) :
                    EntryShaped(body.m.result.a[i])
      [] OTHER -> TRUE

\* C21: an operation that succeeds found in the result every member it
\* reads, of the type it reads it as: no member that is missing or of
\* another type is made up for by a default, and the genesis epoch that
\* get_genesis_info returns is the result's genesis_block_height.
C21_ResultShapeChecked ==
    (Answered /\ out.kind = "Ok")
        => /\ ResultShaped(op, arg.response.body)
           /\ op = "get_genesis_info"
                => out.info.genesis_epoch
                       = arg.response.body.m.result.m.genesis_block_height.i

\* the backend answered get_genesis_info with a success status and a result
\* object, and no "error" member
GenesisInfoResult ==
    /\ op = "get_genesis_info"
    /\ Answered
    /\ is_success(arg.response.status)
    /\ arg.response.body.t = "object"
    /\ "error" \notin DOMAIN arg.response.body.m
    /\ HasTyped(arg.response.body, "result", "object")

\* C22: get_genesis_info answered with a result whose bootstrapped member is
\* false returns the "Subnet not bootstrapped" error, whatever the other
\* members of the result are, and so returns no SubnetGenesisInfo.
C22_NotBootstrapped ==
    (/\ GenesisInfoResult
     /\ HasTyped(arg.response.body.m.result, "bootstrapped", "bool")
     /\ arg.response.body.m.result.m.bootstrapped.b = FALSE)
        => out = [kind |-> "Err", fmt |-> "Subnet not bootstrapped",
                  args |-> <<>>]

\* the result said bootstrapped = false and lacked its create_subnet_msg
C22_Witness ==
    /\ GenesisInfoResult
    /\ HasTyped(arg.response.body.m.result, "bootstrapped", "bool")
    /\ arg.response.body.m.result.m.bootstrapped.b = FALSE
    /\ "create_subnet_msg" \notin DOMAIN arg.response.body.m.result.m
    /\ out.kind = "Err"

\* the text of a fixed-size hash without its optional "0x" and without the
\* white space the parser passes over; the text stands for a hash of `size`
\* bytes when what is left is 2 * size hex digits
IsHexText(s) == \A i \in 1..Len(s) : HexVal(s[i]) >= 0
IsWhiteSpace(c) == c = " " \/ c = "\t" \/ c = "\n" \/ c = "\r"
RECURSIVE WithoutWhiteSpace(_)
WithoutWhiteSpace(s) ==
    IF s = <<>> THEN <<>>
    ELSE IF IsWhiteSpace(Head(s)) THEN WithoutWhiteSpace(Tail(s))
    ELSE <<Head(s)>> \o WithoutWhiteSpace(Tail(s))
HashDigits(text) ==
    WithoutWhiteSpace(IF Len(text) >= 2 /\ SubSeq(text, 1, 2) = <<"0", "x">>
                      THEN SubSeq(text, 3, Len(text)) ELSE text)
StandsForHash(text, size) ==
    Len(HashDigits(text)) = 2 * size /\ IsHexText(HashDigits(text))

\* the Filecoin address an EVM address of 40 hex digits stands for: the ID
\* address of the actor whose id the digits after "ff" and 22 zeros spell,
\* or else the delegated address of the EAM namespace
RECURSIVE HexNumber(_)
HexNumber(digits) ==
    IF digits = <<>> THEN 0
    ELSE 16 * HexNumber(SubSeq(digits, 1, Len(digits) - 1))
             + HexVal(digits[Len(digits)])
FilAddressOf(digits) ==
    IF HexVal(digits[1]) = 15 /\ HexVal(digits[2]) = 15
       /\ \A i \in 3..24 : digits[i] = "0"
    THEN Address_new_id(HexNumber(SubSeq(digits, 25, 40)))
    ELSE [protocol |-> 4, id |-> EAM_NAMESPACE,
          subaddress |-> hex_decode(digits).bytes]

\* an entry of genesis_validators all of whose three members parse: the
\* address stands for a hash of 20 bytes, the collateral is a non-negative
\* integer, the public key an even number of hex digits and nothing else
EntryParses(entry) ==
    /\ HasTyped(entry, "subnet_address", "string")
    /\ HasTyped(entry, "collateral", "number")
    /\ HasTyped(entry, "pubkey", "string")
    /\ ~is_f64(entry.m.collateral)
    /\ entry.m.collateral.i >= 0
    /\ IsHexText(entry.m.pubkey.s)
    /\ Len(entry.m.pubkey.s) % 2 = 0
    /\ StandsForHash(entry.m.subnet_address.s, 20)

\* the validator an entry that parses stands for
ValidatorOf(entry) ==
    [addr |-> FilAddressOf(HashDigits(entry.m.subnet_address.s)),
     metadata |-> <<2>> \o hex_decode(entry.m.pubkey.s).bytes,
     weight |-> token_amount_from_satoshi(entry.m.collateral.i)]

\* the positions of the entries that parse, and how many parse before one
ParsingPositions(entries) ==
    {i \in 1..Len(entries) : EntryParses(entries[i])}
RankAmongParsing(entries, i) ==
    Cardinality({j \in ParsingPositions(entries) : j <= i})

\* get_genesis_info answered by a bootstrapped result of the right shape
GenesisInfoShaped ==
    /\ GenesisInfoResult
    /\ ResultShaped(op, arg.response.body)
    /\ arg.response.body.m.result.m.bootstrapped.b = TRUE

\* C23: the validators get_genesis_info returns are the entries of
\* genesis_validators whose subnet_address, collateral and pubkey all parse,
\* in the order of the list; an entry that does not parse is left out and
\* does not make the call fail; an active_validators_limit above 65535
\* always makes it fail.
C23_ValidatorsFiltered ==
    GenesisInfoShaped
        => LET result == arg.response.body.m.result.m
               entries == result.genesis_validators.a
               limit == result.create_subnet_msg.m.active_validators_limit.i
           IN  /\ limit > U16_MAX => out.kind = "Err"
               /\ limit \in 0..U16_MAX
                    => /\ out.kind = "Ok"
                       /\ Len(out.info.validators)
                              = Cardinality(ParsingPositions(entries))
                       /\ \A i \in ParsingPositions(entries) :
                              out.info.validators[
                                  RankAmongParsing(entries, i)]
                                  = ValidatorOf(entries[i])

\* a list whose first entry does not parse and whose second does, its
\* address written with white space: one validator is returned
C23_Witness ==
    /\ GenesisInfoShaped
    /\ out.kind = "Ok"
    /\ Len(arg.response.body.m.result.m.genesis_validators.a) = 2
    /\ ParsingPositions(arg.response.body.m.result.m.genesis_validators.a)
           = {2}
    /\ \E i \in 1..Len(arg.response.body.m.result.m.genesis_validators.a[2]
                           .m.subnet_address.s) :
           IsWhiteSpace(arg.response.body.m.result.m.genesis_validators.a[2]
                            .m.subnet_address.s[i])
    /\ Len(out.info.validators) = 1
    /\ out.info.validators[1].addr.protocol = 4

\* two entries that parse, the first to a delegated address and the second
\* to the address of an actor id
C23_WitnessOrder ==
    /\ GenesisInfoShaped
    /\ out.kind = "Ok"
    /\ Len(out.info.validators) = 2
    /\ out.info.validators[1].addr.protocol = 4
    /\ out.info.validators[2].addr = Address_new_id(1001)

\* a limit above 65535
C23_WitnessLimit ==
    /\ GenesisInfoShaped
    /\ arg.response.body.m.result.m.create_subnet_msg.m
           .active_validators_limit.i > U16_MAX
    /\ out.kind = "Err"

\* get_top_down_msgs answered with a success status and a result array, and
\* no "error" member
TopDownResult ==
    /\ op = "get_top_down_msgs"
    /\ Answered
    /\ is_success(arg.response.status)
    /\ arg.response.body.t = "object"
    /\ "error" \notin DOMAIN arg.response.body.m
    /\ HasTyped(arg.response.body, "result", "array")

\* an entry whose block_hash text stands for a hash of 32 bytes, and the
\* 32 bytes
HasHash(entry) ==
    /\ HasTyped(entry, "block_hash", "string")
    /\ StandsForHash(entry.m.block_hash.s, 32)
HashOf(entry) == hex_decode(HashDigits(entry.m.block_hash.s)).bytes

\* C24: when two entries of a getrootnetmessages result carry different
\* block hashes the whole call fails; when the call succeeds on a non-empty
\* result every entry carries the same block hash and the payload's
\* block_hash is that hash.
C24_BlockHashAgreement ==
    TopDownResult
        => LET entries == arg.response.body.m.result.a
           IN  /\ (\E i, j \in 1..Len(entries) :
                       /\ HasHash(entries[i]) /\ HasHash(entries[j])
                       /\ HashOf(entries[i]) # HashOf(entries[j]))
                     => out.kind = "Err"
               /\ (out.kind = "Ok" /\ entries # <<>>)
                     => \A i \in 1..Len(entries) :
                            /\ HasHash(entries[i])
                            /\ HashOf(entries[i]) = out.payload.block_hash

\* two entries, well formed but for their different block hashes, the
\* first written with white space, and the call failed on the mismatch
C24_Witness ==
    /\ TopDownResult
    /\ Len(arg.response.body.m.result.a) = 2
    /\ \E i \in 1..Len(arg.response.body.m.result.a[1].m.block_hash.s) :
           IsWhiteSpace(arg.response.body.m.result.a[1].m.block_hash.s[i])
    /\ \A i \in 1..2 : EntryShaped(arg.response.body.m.result.a[i])
                        /\ HasHash(arg.response.body.m.result.a[i])
    /\ HashOf(arg.response.body.m.result.a[1])
           # HashOf(arg.response.body.m.result.a[2])
    /\ out = [kind |-> "Err", fmt |-> "Block hash mismatch in result",
              args |-> <<>>]

\* two entries of one block hash, written in two ways, and the call
\* succeeded
C24_WitnessAgree ==
    /\ TopDownResult
    /\ Len(arg.response.body.m.result.a) = 2
    /\ arg.response.body.m.result.a[1].m.block_hash.s
           # arg.response.body.m.result.a[2].m.block_hash.s
    /\ out.kind = "Ok"
    /\ out.payload.block_hash = HashOf(arg.response.body.m.result.a[2])

\* an entry whose kind is the text "fund"
IsFund(entry) ==
    /\ HasTyped(entry, "kind", "string")
    /\ entry.m.kind.s = <<"f", "u", "n", "d">>

\* the destination an entry names: its msg.subnet_id parsed as a SubnetID
\* and the Filecoin address its msg.address, the text of an EVM address,
\* stands for
DestinationOf(entry) ==
    [subnet_id |-> SubnetID_from_str(entry.m.msg.m.subnet_id.s).val,
     raw_address |-> FilAddressOf(HashDigits(entry.m.msg.m.address.s))]

\* C25: a getrootnetmessages result in which an entry's kind is missing or
\* is not "fund" fails the whole call; a successful call returns one
\* Transfer envelope per entry, in the entries' order, each with the
\* entry's nonce, the destination parsed from the entry's msg.subnet_id and
\* msg.address, and an empty message.
C25_Translation ==
    TopDownResult
        => LET entries == arg.response.body.m.result.a
           IN  /\ (\E i \in 1..Len(entries) : ~IsFund(entries[i]))
                     => out.kind = "Err"
               /\ out.kind = "Ok"
                     => /\ Len(out.payload.value) = Len(entries)
                        /\ \A i \in 1..Len(entries) :
                               /\ EntryShaped(entries[i])
                               /\ StandsForHash(
                                      entries[i].m.msg.m.address.s, 20)
                               /\ out.payload.value[i].kind = "Transfer"
                               /\ out.payload.value[i].nonce
                                      = entries[i].m.nonce.i
                               /\ out.payload.value[i].to
                                      = DestinationOf(entries[i])
                               /\ out.payload.value[i].message = <<>>

\* two fund entries of different nonces and destination addresses were
\* translated: the first address, written with white space, is a delegated
\* address, the second the address of an actor id
C25_Witness ==
    /\ TopDownResult
    /\ out.kind = "Ok"
    /\ Len(out.payload.value) = 2
    /\ out.payload.value[1].nonce # out.payload.value[2].nonce
    /\ \E i \in 1..Len(arg.response.body.m.result.a[1].m.msg.m.address.s) :
           IsWhiteSpace(arg.response.body.m.result.a[1].m.msg.m.address.s[i])
    /\ out.payload.value[1].to.raw_address.protocol = 4
    /\ out.payload.value[2].to.raw_address = Address_new_id(1001)

\* two fund entries of different destination subnets were translated
C25_WitnessSubnets ==
    /\ TopDownResult
    /\ out.kind = "Ok"
    /\ Len(out.payload.value) = 2
    /\ out.payload.value[1].to.subnet_id # out.payload.value[2].to.subnet_id

\* a well-formed entry of an unknown kind after a fund entry
C25_WitnessUnknownKind ==
    /\ TopDownResult
    /\ Len(arg.response.body.m.result.a) = 2
    /\ IsFund(arg.response.body.m.result.a[1])
    /\ EntryShaped(arg.response.body.m.result.a[2])
    /\ ~IsFund(arg.response.body.m.result.a[2])
    /\ out = [kind |-> "Err", fmt |-> "Unknown kind in result",
              args |-> <<>>]

\* a token amount below zero: its decimal text starts with the minus sign
IsNegativeAmount(amount) == amount.atto[1] = "-"

\* C26: every envelope get_top_down_msgs returns has a value that is not
\* negative: the call fails or each envelope's value is at least zero.
C26_ValueNonNegative ==
    (op = "get_top_down_msgs" /\ Answered /\ out.kind = "Ok")
        => \A i \in 1..Len(out.payload.value) :
               ~IsNegativeAmount(out.payload.value[i].value)

\* C27: whatever status and body the backend answers with, an operation that
\* issues a JSON-RPC request completes by returning a value or an error: it
\* never panics.
C27_NoPanic ==
    (op \in RpcOps /\ Answered) => out.kind \in {"Ok", "Err"}

\* the backend's answer is a failure: the transport failed, the status is
\* not a success, or the body carries an "error" member
FailedAnswer(response) ==
    \/ response.transport = "failed"
    \/ ~is_success(response.status)
    \/ /\ response.body.t = "object"
       /\ "error" \in DOMAIN response.body.m

\* one invocation of an operation: what it sent is at most one request, and
\* a failed answer to that request is returned as an error with nothing
\* sent after it
OneRequestPerCall ==
    /\ \A i \in 1..Len(other') : Len(other'[i].sent) <= 1
    /\ op' \in RpcOps
          => /\ Len(cur') <= 1
             /\ (cur' # <<>> /\ FailedAnswer(arg'.response))
                   => out'.kind = "Err" /\ Len(cur') = 1

\* C28: no automatic retry: in every execution, one invocation of a manager
\* operation sends at most one request to the backend; after a transport
\* failure, a non-success status or a JSON-RPC error it returns the error
\* without sending a further request.
C28_NoRetry == [][OneRequestPerCall]_vars

\* fund met a transport failure while the request of another call was
\* outstanding: one request was sent and the error returned
C28_Witness ==
    /\ op = "fund"
    /\ Len(cur) = 1
    /\ arg.response.transport = "failed"
    /\ out.kind = "Err"
    /\ other # <<>>
    /\ other[1].at = "send"

\* two calls in flight, one waiting for its answer and one for the body
C28_WitnessInFlight ==
    /\ Len(other) = 2
    /\ other[1].at = "json"
    /\ other[2].at = "send"
    /\ out = Pending

\* each kind of failure met by some operation
C28_WitnessStatus ==
    /\ op \in RpcOps /\ Len(cur) = 1
    /\ arg.response.transport = "ok"
    /\ ~is_success(arg.response.status)
    /\ out.kind = "Err"

\* one step of parent(), of subnet_actor() or of new_from_parent(): what
\* parent() returns for the SubnetID it is called on, and what the two
\* return right after new_from_parent(p, a) built that SubnetID
ParentStep ==
    /\ op' = "parent"
         => /\ out'.kind = "None" <=> arg'.self.children = <<>>
            /\ out'.kind = "Some"
                 => /\ out'.val.root_network_type
                           = arg'.self.root_network_type
                    /\ out'.val.root = arg'.self.root
                    /\ \E last \in {arg'.self.children[
                                       Len(arg'.self.children)]} :
                           Append(out'.val.children, last)
                               = arg'.self.children
    /\ op' = "new_from_parent"
         => /\ arg'.parent = cur.v
            /\ out'.val.root_network_type = arg'.parent.root_network_type
            /\ out'.val.root = arg'.parent.root
    /\ (op = "new_from_parent" /\ op' = "parent")
         => /\ arg'.self = out.val
            /\ out' = [kind |-> "Some", val |-> arg.parent]
    /\ (op = "new_from_parent" /\ op' = "subnet_actor")
         => /\ arg'.self = out.val
            /\ out'.address = arg.subnet_act

\* C29: parent() returns None exactly when the SubnetID has no children, and
\* otherwise the SubnetID of the same root network type and root with only
\* the last child removed; so new_from_parent(p, a).parent() is Some(p) and
\* new_from_parent(p, a).subnet_actor() is a, and p is left as it was.
C29_ParentInverse == [][ParentStep]_vars

\* parent() of a Btc-rooted SubnetID of two children or more returned the
\* Btc-rooted SubnetID one child shorter
C29_Witness ==
    /\ op = "parent"
    /\ out.kind = "Some"
    /\ arg.self.root_network_type = "Btc"
    /\ Len(arg.self.children) >= 2
    /\ cur.v = out.val

\* parent() of a SubnetID without children
C29_WitnessRoot ==
    /\ op = "parent"
    /\ out.kind = "None"
    /\ arg.self.children = <<>>

\* subnet_actor() of a SubnetID with children
C29_WitnessActor ==
    /\ op = "subnet_actor"
    /\ arg.self.children # <<>>
    /\ out.address = arg.self.children[Len(arg.self.children)]

\* C30: in every envelope get_top_down_msgs(subnet_id, epoch) returns, the
\* source subnet is the root ancestor of subnet_id: it has no children, and
\* the root value and the root network type of subnet_id.
C30_FromIsRootAncestor ==
    (op = "get_top_down_msgs" /\ Answered /\ out.kind = "Ok")
        => \A i \in 1..Len(out.payload.value) :
               /\ out.payload.value[i].from.subnet_id.children = <<>>
               /\ out.payload.value[i].from.subnet_id.root
                      = arg.subnet_id.root
               /\ out.payload.value[i].from.subnet_id.root_network_type
                      = arg.subnet_id.root_network_type

====
